---- MODULE Spec2Model ----
(***************************************************************************)
(* Shogi-Instructor: the piece model, the rules engine, the SFEN codec and *)
(* the game controller, as state machines over the source's own data.      *)
(***************************************************************************)
EXTENDS Integers, Sequences, FiniteSets, TLC

(***************************************************************************)
(* Piece model (logic/shogiPiece.ts)                                       *)
(***************************************************************************)
BOARD_SIZE == 9
BOARD_CELLS == 81

PlayerOwner == {"self", "opponent"}
PieceType == {"King", "Pawn", "Lance", "Knight", "Silver", "Gold", "Bishop", "Rook"}

\* an empty cell (null in the source)
NoPiece == [type |-> "None", owner |-> "none", promoted |-> FALSE]

\* ShogiPieceFactory.create: a fresh, unpromoted piece
create(type, owner) == [type |-> type, owner |-> owner, promoted |-> FALSE]

\* BaseShogiPiece.promote
\* promote() as a switch: a promoted piece is demoted
promote_toggle(piece) == [piece EXCEPT !.promoted = ~@]

promote(piece) == [piece EXCEPT !.promoted = TRUE]

\* the piece classes' getValue()
getValue(piece) ==
  CASE piece.type = "King"   -> 10000
    [] piece.type = "Gold"   -> 6
    [] piece.type = "Pawn"   -> IF piece.promoted THEN 10 ELSE 1
    [] piece.type = "Lance"  -> IF piece.promoted THEN 10 ELSE 3
    [] piece.type = "Knight" -> IF piece.promoted THEN 10 ELSE 4
    [] piece.type = "Silver" -> IF piece.promoted THEN 10 ELSE 5
    [] piece.type = "Bishop" -> IF piece.promoted THEN 13 ELSE 8
    [] piece.type = "Rook"   -> IF piece.promoted THEN 15 ELSE 10

KING_BASE ==
  << <<0, 0, 0, 0, 0>>,
     <<0, 1, 1, 1, 0>>,
     <<0, 1, 0, 1, 0>>,
     <<0, 1, 1, 1, 0>>,
     <<0, 0, 0, 0, 0>> >>

GOLD_BASE ==
  << <<0, 0, 0, 0, 0>>,
     <<0, 1, 1, 1, 0>>,
     <<0, 1, 0, 1, 0>>,
     <<0, 0, 1, 0, 0>>,
     <<0, 0, 0, 0, 0>> >>

PAWN_BASE ==
  << <<0, 0, 0, 0, 0>>,
     <<0, 0, 1, 0, 0>>,
     <<0, 0, 0, 0, 0>>,
     <<0, 0, 0, 0, 0>>,
     <<0, 0, 0, 0, 0>> >>

LANCE_BASE ==
  << <<0, 0, 0, 0, 0>>,
     <<0, 0, 2, 0, 0>>,
     <<0, 0, 0, 0, 0>>,
     <<0, 0, 0, 0, 0>>,
     <<0, 0, 0, 0, 0>> >>

KNIGHT_BASE ==
  << <<0, 1, 0, 1, 0>>,
     <<0, 0, 0, 0, 0>>,
     <<0, 0, 0, 0, 0>>,
     <<0, 0, 0, 0, 0>>,
     <<0, 0, 0, 0, 0>> >>

SILVER_BASE ==
  << <<0, 0, 0, 0, 0>>,
     <<0, 1, 1, 1, 0>>,
     <<0, 0, 0, 0, 0>>,
     <<0, 1, 0, 1, 0>>,
     <<0, 0, 0, 0, 0>> >>

BISHOP_BASE ==
  << <<0, 0, 0, 0, 0>>,
     <<0, 2, 0, 2, 0>>,
     <<0, 0, 0, 0, 0>>,
     <<0, 2, 0, 2, 0>>,
     <<0, 0, 0, 0, 0>> >>

ROOK_BASE ==
  << <<0, 0, 0, 0, 0>>,
     <<0, 0, 2, 0, 0>>,
     <<0, 2, 0, 2, 0>>,
     <<0, 0, 2, 0, 0>>,
     <<0, 0, 0, 0, 0>> >>

\* Bishop.getBaseMatrix, promoted branch (horse)
HORSE_BASE ==
  << <<0, 0, 0, 0, 0>>,
     <<0, 2, 1, 2, 0>>,
     <<0, 1, 0, 1, 0>>,
     <<0, 2, 1, 2, 0>>,
     <<0, 0, 0, 0, 0>> >>

\* Rook.getBaseMatrix, promoted branch (dragon)
DRAGON_BASE ==
  << <<0, 0, 0, 0, 0>>,
     <<0, 1, 2, 1, 0>>,
     <<0, 2, 0, 2, 0>>,
     <<0, 1, 2, 1, 0>>,
     <<0, 0, 0, 0, 0>> >>

\* the subclasses' getBaseMatrix
getBaseMatrix(piece) ==
  CASE piece.type = "King"   -> KING_BASE
    [] piece.type = "Gold"   -> GOLD_BASE
    [] piece.type = "Pawn"   -> IF piece.promoted THEN GOLD_BASE ELSE PAWN_BASE
    [] piece.type = "Lance"  -> IF piece.promoted THEN GOLD_BASE ELSE LANCE_BASE
    [] piece.type = "Knight" -> IF piece.promoted THEN GOLD_BASE ELSE KNIGHT_BASE
    [] piece.type = "Silver" -> IF piece.promoted THEN GOLD_BASE ELSE SILVER_BASE
    [] piece.type = "Bishop" -> IF piece.promoted THEN HORSE_BASE ELSE BISHOP_BASE
    [] piece.type = "Rook"   -> IF piece.promoted THEN DRAGON_BASE ELSE ROOK_BASE

\* getMovementMatrix without the reversal for the opponent
getMovementMatrix_noFlip(piece) == getBaseMatrix(piece)

\* BaseShogiPiece.getMovementMatrix: the base for self, rows and columns
\* both reversed for the opponent
getMovementMatrix(piece) ==
  LET base == getBaseMatrix(piece)
  IN  IF piece.owner = "self" THEN base
      ELSE [r \in 1..5 |-> [c \in 1..5 |-> base[6 - r][6 - c]]]

(***************************************************************************)
(* Rules engine (logic/shogiRules.ts)                                      *)
(***************************************************************************)
Cells == 0..(BOARD_CELLS - 1)

isInside(x, y) == x >= 0 /\ x < BOARD_SIZE /\ y >= 0 /\ y < BOARD_SIZE

opponentOwner(owner) == IF owner = "self" THEN "opponent" ELSE "self"

\* clonePiece(piece, promoted): a fresh piece of the same type and owner
clonePiece(piece, promoted) ==
  IF promoted THEN promote(create(piece.type, piece.owner))
  ELSE create(piece.type, piece.owner)

\* Math.sign
Sign(n) == IF n > 0 THEN 1 ELSE IF n < 0 THEN -1 ELSE 0

\* SlideRay that does not stop at a piece
RECURSIVE SlideRay_through(_, _, _, _, _, _)
SlideRay_through(owner, cells, tx, ty, dx, dy) ==
  IF ~isInside(tx, ty) THEN {}
  ELSE {ty * BOARD_SIZE + tx} \cup SlideRay_through(owner, cells, tx + dx, ty + dy, dx, dy)

\* the while loop over one slide direction of calculatePseudoLegalMovesOnBoard
RECURSIVE SlideRay(_, _, _, _, _, _)
SlideRay(owner, cells, tx, ty, dx, dy) ==
  IF ~isInside(tx, ty) THEN {}
  ELSE LET to == ty * BOARD_SIZE + tx
           target == cells[to]
       IN  IF target = NoPiece
           THEN {to} \cup SlideRay(owner, cells, tx + dx, ty + dy, dx, dy)
           ELSE IF target.owner # owner THEN {to} ELSE {}

calculatePseudoLegalMovesOnBoard(piece, fromIndex, cells) ==
  LET matrix == getMovementMatrix(piece)
      fx == fromIndex % BOARD_SIZE
      fy == fromIndex \div BOARD_SIZE
      offs == {rc \in (0..4) \X (0..4) :
                 matrix[rc[1] + 1][rc[2] + 1] # 0 /\ ~(rc[1] = 2 /\ rc[2] = 2)}
      steps == {rc \in offs :
                  /\ matrix[rc[1] + 1][rc[2] + 1] = 1
                  /\ isInside(fx + rc[2] - 2, fy + rc[1] - 2)
                  /\ LET target == cells[(fy + rc[1] - 2) * BOARD_SIZE + fx + rc[2] - 2]
                     IN  target = NoPiece \/ target.owner # piece.owner}
      slideDirs == {<<Sign(rc[2] - 2), Sign(rc[1] - 2)>> :
                      rc \in {o \in offs : matrix[o[1] + 1][o[2] + 1] = 2}}
  IN  {(fy + rc[1] - 2) * BOARD_SIZE + fx + rc[2] - 2 : rc \in steps}
      \cup UNION {SlideRay(piece.owner, cells, fx + d[1], fy + d[2], d[1], d[2]) :
                    d \in slideDirs}

isInPromotionZoneIndex(owner, index) ==
  LET y == index \div BOARD_SIZE
  IN  IF owner = "self" THEN y <= 2 ELSE y >= 6

canPromotePiece(piece) ==
  IF piece.promoted THEN FALSE ELSE piece.type \notin {"King", "Gold"}

\* lastRank with the two sides exchanged
lastRank_swapped(owner) == IF owner = "self" THEN 8 ELSE 0

lastRank(owner) == IF owner = "self" THEN 0 ELSE 8

lastTwoRanks(owner) == IF owner = "self" THEN {0, 1} ELSE {8, 7}

isPromotionMandatory(pieceType, owner, toIndex) ==
  LET y == toIndex \div BOARD_SIZE
  IN  IF pieceType = "Pawn" \/ pieceType = "Lance" THEN y = lastRank(owner)
      ELSE IF pieceType = "Knight" THEN y \in lastTwoRanks(owner)
      ELSE FALSE

\* hasUnpromotedPawnInFile without the test of the promoted flag
hasUnpromotedPawnInFile_anyPawn(owner, fileX, cells) ==
  \E y \in 0..(BOARD_SIZE - 1) :
    LET p == cells[y * BOARD_SIZE + fileX]
    IN  p # NoPiece /\ p.owner = owner /\ p.type = "Pawn"

hasUnpromotedPawnInFile(owner, fileX, cells) ==
  \E y \in 0..(BOARD_SIZE - 1) :
    LET p == cells[y * BOARD_SIZE + fileX]
    IN  p # NoPiece /\ p.owner = owner /\ p.type = "Pawn" /\ ~p.promoted

\* null in the source when the owner has no King
NoIndex == -1

\* the first King of the owner in index order
findKingIndex(owner, cells) ==
  LET ks == {i \in Cells : cells[i] # NoPiece /\ cells[i].owner = owner
                           /\ cells[i].type = "King"}
  IN  IF ks = {} THEN NoIndex ELSE CHOOSE i \in ks : \A j \in ks : i <= j

\* isSquareAttacked counting the pieces of the wrong side
isSquareAttacked_ownPieces(targetIndex, attacker, cells) ==
  \E i \in Cells :
    /\ cells[i] # NoPiece
    /\ cells[i].owner # attacker
    /\ targetIndex \in calculatePseudoLegalMovesOnBoard(cells[i], i, cells)

isSquareAttacked(targetIndex, attacker, cells) ==
  \E i \in Cells :
    /\ cells[i] # NoPiece
    /\ cells[i].owner = attacker
    /\ targetIndex \in calculatePseudoLegalMovesOnBoard(cells[i], i, cells)

\* isInCheck answering true for a side without a King
isInCheck_noKing(owner, cells) ==
  LET kingIndex == findKingIndex(owner, cells)
  IN  IF kingIndex = NoIndex THEN TRUE
      ELSE isSquareAttacked(kingIndex, opponentOwner(owner), cells)

isInCheck(owner, cells) ==
  LET kingIndex == findKingIndex(owner, cells)
  IN  IF kingIndex = NoIndex THEN FALSE
      ELSE isSquareAttacked(kingIndex, opponentOwner(owner), cells)

\* simulateMove with the default promote = false
simulateMove(cells, fromIndex, toIndex) ==
  LET piece == cells[fromIndex]
  IN  IF piece = NoPiece THEN cells
      ELSE [cells EXCEPT ![fromIndex] = NoPiece,
                         ![toIndex] = clonePiece(piece, piece.promoted)]

\* simulateDrop that places nothing
simulateDrop_nothing(cells, toIndex, pieceType, owner) == cells

simulateDrop(cells, toIndex, pieceType, owner) ==
  [cells EXCEPT ![toIndex] = create(pieceType, owner)]

isMoveKingSafe(piece, fromIndex, toIndex, cells) ==
  ~isInCheck(piece.owner, simulateMove(cells, fromIndex, toIndex))

\* isDropKingSafe without the check test
isDropKingSafe_always(owner, toIndex, pieceType, cells) == TRUE

isDropKingSafe(owner, toIndex, pieceType, cells) ==
  ~isInCheck(owner, simulateDrop(cells, toIndex, pieceType, owner))

\* calculateLegalMovesOnBoard without the self-check filter
calculateLegalMovesOnBoard_unfiltered(piece, fromIndex, cells) ==
  calculatePseudoLegalMovesOnBoard(piece, fromIndex, cells)

calculateLegalMovesOnBoard(piece, fromIndex, cells) ==
  {to \in calculatePseudoLegalMovesOnBoard(piece, fromIndex, cells) :
     isMoveKingSafe(piece, fromIndex, to, cells)}

\* a hand (komadai) is a sequence of items [type, count]; komadaiByOwner is
\* [self |-> hand, opponent |-> hand], or NoHands when the argument is omitted
NoHands == [self |-> <<[type |-> "None", count |-> 0]>>, opponent |-> <<>>]

getKomadaiForOwner(owner, komadaiByOwner) ==
  IF owner = "self" THEN komadaiByOwner.self ELSE komadaiByOwner.opponent

RECURSIVE hasAnyLegalMove(_, _, _)
RECURSIVE isPawnDropMate(_, _, _, _)
RECURSIVE calculateLegalDrops(_, _, _, _)

\* hasAnyLegalMove that never looks at the hand
hasAnyLegalMove_boardOnly(owner, cells, komadaiByOwner) ==
  \E i \in Cells :
    /\ cells[i] # NoPiece
    /\ cells[i].owner = owner
    /\ calculateLegalMovesOnBoard(cells[i], i, cells) # {}

hasAnyLegalMove(owner, cells, komadaiByOwner) ==
  \/ \E i \in Cells :
       /\ cells[i] # NoPiece
       /\ cells[i].owner = owner
       /\ calculateLegalMovesOnBoard(cells[i], i, cells) # {}
  \/ /\ komadaiByOwner # NoHands
     /\ LET hand == getKomadaiForOwner(owner, komadaiByOwner)
        IN  \E k \in 1..Len(hand) :
              /\ hand[k].count > 0
              /\ calculateLegalDrops(hand[k].type, owner, cells, komadaiByOwner) # {}

isCheckmate(owner, cells, komadaiByOwner) ==
  IF ~isInCheck(owner, cells) THEN FALSE
  ELSE ~hasAnyLegalMove(owner, cells, komadaiByOwner)

\* isPawnDropMate asking whether the dropping side, not the defender, can move
isPawnDropMate_ownSide(owner, toIndex, cells, komadaiByOwner) ==
  LET next == simulateDrop(cells, toIndex, "Pawn", owner)
      defender == opponentOwner(owner)
  IN  IF ~isInCheck(defender, next) THEN FALSE
      ELSE ~hasAnyLegalMove(owner, next, komadaiByOwner)

isPawnDropMate(owner, toIndex, cells, komadaiByOwner) ==
  LET next == simulateDrop(cells, toIndex, "Pawn", owner)
      defender == opponentOwner(owner)
  IN  IF ~isInCheck(defender, next) THEN FALSE
      ELSE ~hasAnyLegalMove(defender, next, komadaiByOwner)

calculateLegalDrops(pieceType, owner, cells, komadaiByOwner) ==
  LET lr == lastRank(owner)
      l2 == lastTwoRanks(owner)
  IN  {i \in Cells :
         /\ cells[i] = NoPiece
         /\ ~((pieceType = "Pawn" \/ pieceType = "Lance") /\ i \div BOARD_SIZE = lr)
         /\ ~(pieceType = "Knight" /\ (i \div BOARD_SIZE) \in l2)
         /\ ~(pieceType = "Pawn" /\ hasUnpromotedPawnInFile(owner, i % BOARD_SIZE, cells))
         /\ isDropKingSafe(owner, i, pieceType, cells)
         /\ ~(pieceType = "Pawn" /\ komadaiByOwner # NoHands
              /\ isPawnDropMate(owner, i, cells, komadaiByOwner))}

pieceCode(piece) ==
  LET base == CASE piece.type = "King"   -> "K"
                [] piece.type = "Gold"   -> "G"
                [] piece.type = "Silver" -> "S"
                [] piece.type = "Knight" -> "N"
                [] piece.type = "Lance"  -> "L"
                [] piece.type = "Pawn"   -> "P"
                [] piece.type = "Bishop" -> "B"
                [] piece.type = "Rook"   -> "R"
  IN  IF ~piece.promoted THEN <<base>> ELSE <<"+", base>>

pieceValue(piece) ==
  LET promoted == piece.promoted
  IN  CASE piece.type = "Rook"   -> IF promoted THEN 11 ELSE 9
        [] piece.type = "Bishop" -> IF promoted THEN 10 ELSE 8
        [] piece.type = "Gold"   -> 6
        [] piece.type = "Silver" -> IF promoted THEN 6 ELSE 5
        [] piece.type = "Knight" -> IF promoted THEN 6 ELSE 4
        [] piece.type = "Lance"  -> IF promoted THEN 6 ELSE 3
        [] piece.type = "Pawn"   -> IF promoted THEN 7 ELSE 1
        [] piece.type = "King"   -> 0

\* the square as <<file, rank>>, rank 1 for 'a' .. 9 for 'i'
indexToUsiSquare(index) ==
  <<9 - (index % BOARD_SIZE), (index \div BOARD_SIZE) + 1>>

Abs(n) == IF n < 0 THEN -n ELSE n

manhattanDistance(a, b) ==
  Abs((a % BOARD_SIZE) - (b % BOARD_SIZE))
    + Abs((a \div BOARD_SIZE) - (b \div BOARD_SIZE))

isSquareLegallyAttackable(targetIndex, attacker, cells) ==
  \E i \in Cells :
    /\ cells[i] # NoPiece
    /\ cells[i].owner = attacker
    /\ targetIndex \in calculateLegalMovesOnBoard(cells[i], i, cells)

\* the origin indices of the attacker's pieces that can legally move to the target
findLegalAttackers(targetIndex, attackerOwner, cells) ==
  {i \in Cells :
     /\ cells[i] # NoPiece
     /\ cells[i].owner = attackerOwner
     /\ targetIndex \in calculateLegalMovesOnBoard(cells[i], i, cells)}

\* the attacker itself is moved (no clone, promotion state kept)
simulateCapture(cells, fromIndex, toIndex) ==
  LET attacker == cells[fromIndex]
  IN  IF attacker = NoPiece THEN cells
      ELSE [cells EXCEPT ![fromIndex] = NoPiece, ![toIndex] = attacker]

\* true as soon as the capture by any one attacker can be recaptured
hasLegalRecaptureAfterCapture(targetIndex, targetOwner, cells) ==
  LET attackers == findLegalAttackers(targetIndex, opponentOwner(targetOwner), cells)
  IN  IF attackers = {} THEN FALSE
      ELSE \E a \in attackers :
             LET next == simulateCapture(cells, a, targetIndex)
             IN  \E i \in Cells :
                   /\ i # targetIndex
                   /\ next[i] # NoPiece
                   /\ next[i].owner = targetOwner
                   /\ targetIndex \in calculateLegalMovesOnBoard(next[i], i, next)

\* Number.POSITIVE_INFINITY in the source
Infinity == 1000

\* the loop body of findHangingPieces for cell i
isHangingAt(i, cells, targetOwner) ==
  LET p == cells[i]
  IN  /\ p # NoPiece
      /\ p.owner = targetOwner
      /\ p.type # "King"
      /\ isSquareLegallyAttackable(i, opponentOwner(targetOwner), cells)
      /\ ~hasLegalRecaptureAfterCapture(i, targetOwner, cells)

hangingEntry(i, cells, targetOwner) ==
  LET opponentKingIndex == findKingIndex(opponentOwner(targetOwner), cells)
  IN  [index |-> i, piece |-> cells[i], value |-> pieceValue(cells[i]),
       code |-> pieceCode(cells[i]), square |-> indexToUsiSquare(i),
       distanceToOpponentKing |->
         IF opponentKingIndex = NoIndex THEN Infinity
         ELSE manhattanDistance(i, opponentKingIndex)]

RECURSIVE hangingFrom(_, _, _)
hangingFrom(i, cells, targetOwner) ==
  IF i >= BOARD_CELLS THEN <<>>
  ELSE (IF isHangingAt(i, cells, targetOwner)
        THEN <<hangingEntry(i, cells, targetOwner)>> ELSE <<>>)
       \o hangingFrom(i + 1, cells, targetOwner)

\* the hanging pieces in ascending index order
findHangingPieces(cells, targetOwner) == hangingFrom(0, cells, targetOwner)

RECURSIVE pickFrom(_, _, _)
pickFrom(hanging, i, best) ==
  IF i > Len(hanging) THEN best
  ELSE LET cur == hanging[i]
       IN  IF cur.value > best.value THEN pickFrom(hanging, i + 1, cur)
           ELSE IF cur.value = best.value
                   /\ cur.distanceToOpponentKing < best.distanceToOpponentKing
                THEN pickFrom(hanging, i + 1, cur)
                ELSE pickFrom(hanging, i + 1, best)

\* null in the source when nothing hangs
NoHanging == [index |-> NoIndex, piece |-> NoPiece, value |-> 0, code |-> <<>>,
              square |-> <<0, 0>>, distanceToOpponentKing |-> 0]

pickTopHangingPiece(hanging) ==
  IF Len(hanging) = 0 THEN NoHanging ELSE pickFrom(hanging, 2, hanging[1])

(***************************************************************************)
(* Position codec (utils/typeGuards.ts, the sfenUtils part).  A text is a  *)
(* sequence of one-character strings.                                      *)
(***************************************************************************)
LowerChars == <<"a", "b", "c", "d", "e", "f", "g", "h", "i", "j", "k", "l", "m",
                "n", "o", "p", "q", "r", "s", "t", "u", "v", "w", "x", "y", "z">>
UpperChars == <<"A", "B", "C", "D", "E", "F", "G", "H", "I", "J", "K", "L", "M",
                "N", "O", "P", "Q", "R", "S", "T", "U", "V", "W", "X", "Y", "Z">>
DigitChars == <<"0", "1", "2", "3", "4", "5", "6", "7", "8", "9">>

\* String.prototype.toUpperCase / toLowerCase on one character
toUpperCase(ch) ==
  IF \E k \in 1..26 : LowerChars[k] = ch
  THEN UpperChars[CHOOSE k \in 1..26 : LowerChars[k] = ch] ELSE ch

toLowerCase(ch) ==
  IF \E k \in 1..26 : UpperChars[k] = ch
  THEN LowerChars[CHOOSE k \in 1..26 : UpperChars[k] = ch] ELSE ch

isDigitChar(ch) == \E k \in 1..10 : DigitChars[k] = ch

\* parseInt of one digit character
digitValue(ch) == (CHOOSE k \in 1..10 : DigitChars[k] = ch) - 1

\* parseInt(numStr, 10) of a string of digits
RECURSIVE digitsValue(_)
digitsValue(numStr) ==
  IF numStr = <<>> THEN 0
  ELSE 10 * digitsValue(SubSeq(numStr, 1, Len(numStr) - 1))
       + digitValue(numStr[Len(numStr)])

\* Number.prototype.toString in base 10
RECURSIVE natToString(_)
natToString(n) ==
  IF n < 10 THEN <<DigitChars[n + 1]>>
  ELSE natToString(n \div 10) \o <<DigitChars[(n % 10) + 1]>>

numberToString(n) == IF n < 0 THEN <<"-">> \o natToString(-n) ELSE natToString(n)

\* str.split(sep) for a one-character separator: the pieces, empty ones kept
RECURSIVE splitOn(_, _)
splitOn(str, sep) ==
  IF \A k \in 1..Len(str) : str[k] # sep THEN <<str>>
  ELSE LET k == CHOOSE j \in 1..Len(str) :
                  str[j] = sep /\ \A m \in 1..(j - 1) : str[m] # sep
       IN  CHOOSE pieces \in {<<SubSeq(str, 1, k - 1)>> \o splitOn(rest, sep) :
                                rest \in {SubSeq(str, k + 1, Len(str))}} : TRUE

\* sfen.trim().split(/\s+/): the whitespace-separated fields; the text that
\* is empty after trimming gives the single empty field
splitFields(sfen) ==
  LET raw == SelectSeq(splitOn(sfen, " "), LAMBDA f : f # <<>>)
  IN  IF raw = <<>> THEN << <<>> >> ELSE raw

\* SFEN_PIECE_MAP with promoted forms for every letter
SFEN_PIECE_MAP_allPromotable ==
  [key \in {<<"P">>, <<"L">>, <<"N">>, <<"S">>, <<"G">>, <<"K">>, <<"B">>, <<"R">>,
            <<"+", "P">>, <<"+", "L">>, <<"+", "N">>, <<"+", "S">>, <<"+", "B">>,
            <<"+", "R">>, <<"+", "G">>, <<"+", "K">>} |->
     [type |-> CASE key[Len(key)] = "P" -> "Pawn"
                 [] key[Len(key)] = "L" -> "Lance"
                 [] key[Len(key)] = "N" -> "Knight"
                 [] key[Len(key)] = "S" -> "Silver"
                 [] key[Len(key)] = "G" -> "Gold"
                 [] key[Len(key)] = "K" -> "King"
                 [] key[Len(key)] = "B" -> "Bishop"
                 [] key[Len(key)] = "R" -> "Rook",
      promoted |-> Len(key) = 2]]

SFEN_PIECE_MAP ==
  [key \in {<<"P">>, <<"L">>, <<"N">>, <<"S">>, <<"G">>, <<"K">>, <<"B">>, <<"R">>,
            <<"+", "P">>, <<"+", "L">>, <<"+", "N">>, <<"+", "S">>, <<"+", "B">>,
            <<"+", "R">>} |->
     [type |-> CASE key[Len(key)] = "P" -> "Pawn"
                 [] key[Len(key)] = "L" -> "Lance"
                 [] key[Len(key)] = "N" -> "Knight"
                 [] key[Len(key)] = "S" -> "Silver"
                 [] key[Len(key)] = "G" -> "Gold"
                 [] key[Len(key)] = "K" -> "King"
                 [] key[Len(key)] = "B" -> "Bishop"
                 [] key[Len(key)] = "R" -> "Rook",
      promoted |-> Len(key) = 2]]

PIECE_TYPE_TO_SFEN ==
  [Pawn |-> "P", Lance |-> "L", Knight |-> "N", Silver |-> "S", Gold |-> "G",
   King |-> "K", Bishop |-> "B", Rook |-> "R"]

\* addOrUpdateKomadai: add to the entry of the same type, or append a copy
addOrUpdateKomadai(list, item) ==
  IF \E k \in 1..Len(list) : list[k].type = item.type
  THEN LET k == CHOOSE j \in 1..Len(list) :
                  list[j].type = item.type
                  /\ \A m \in 1..(j - 1) : list[m].type # item.type
       IN  [list EXCEPT ![k].count = @ + item.count]
  ELSE Append(list, item)

EmptyBoard == [i \in Cells |-> NoPiece]

\* the while loop of parseSFEN over one rank; i is 1-based
RECURSIVE parseRow(_, _, _, _, _)
parseRow(row, i, cellIndex, filledInRow, boardState) ==
  IF i > Len(row)
  THEN IF filledInRow # BOARD_SIZE
       THEN [error |-> "row width", cellIndex |-> cellIndex, boardState |-> boardState]
       ELSE [error |-> "", cellIndex |-> cellIndex, boardState |-> boardState]
  ELSE LET ch == row[i]
       IN  IF isDigitChar(ch)
           THEN IF digitValue(ch) < 1 \/ digitValue(ch) > 9
                THEN [error |-> "empty count", cellIndex |-> cellIndex,
                      boardState |-> boardState]
                ELSE parseRow(row, i + 1, cellIndex + digitValue(ch),
                              filledInRow + digitValue(ch), boardState)
           ELSE LET promoted == (ch = "+")
                    j == IF promoted THEN i + 1 ELSE i
                IN  IF j > Len(row)
                    THEN [error |-> "promoted piece token", cellIndex |-> cellIndex,
                          boardState |-> boardState]
                    ELSE LET pieceChar == row[j]
                             owner == IF pieceChar = toUpperCase(pieceChar)
                                      THEN "self" ELSE "opponent"
                             upper == toUpperCase(pieceChar)
                             key == IF promoted THEN <<"+", upper>> ELSE <<upper>>
                         IN  IF key \notin DOMAIN SFEN_PIECE_MAP
                             THEN [error |-> "piece token", cellIndex |-> cellIndex,
                                   boardState |-> boardState]
                             ELSE LET mapped == SFEN_PIECE_MAP[key]
                                      piece == IF mapped.promoted
                                               THEN promote(create(mapped.type, owner))
                                               ELSE create(mapped.type, owner)
                                  IN  parseRow(row, j + 1, cellIndex + 1,
                                               filledInRow + 1,
                                               IF cellIndex \in Cells
                                               THEN [boardState EXCEPT ![cellIndex] = piece]
                                               ELSE boardState)

\* the for loop of parseSFEN over the nine ranks; rowIdx is 1-based
RECURSIVE parseRows(_, _, _, _)
parseRows(rows, rowIdx, cellIndex, boardState) ==
  IF rowIdx > BOARD_SIZE
  THEN [error |-> IF cellIndex # BOARD_CELLS THEN "board cells" ELSE "",
        boardState |-> boardState]
  ELSE CHOOSE result \in
         {IF r.error # "" THEN [error |-> r.error, boardState |-> r.boardState]
          ELSE parseRows(rows, rowIdx + 1, r.cellIndex, r.boardState) :
          r \in {parseRow(rows[rowIdx], 1, cellIndex, 0, boardState)}} : TRUE

\* the longest run of digits of handStr from position i
RECURSIVE digitRun(_, _)
digitRun(handStr, i) ==
  IF i > Len(handStr) \/ ~isDigitChar(handStr[i]) THEN <<>>
  ELSE <<handStr[i]>> \o digitRun(handStr, i + 1)

\* the while loop of parseSFEN over the hands field; i is 1-based
RECURSIVE parseHands(_, _, _, _)
parseHands(handStr, i, myKomadai, opponentKomadai) ==
  IF i > Len(handStr)
  THEN [error |-> "", myKomadai |-> myKomadai, opponentKomadai |-> opponentKomadai]
  ELSE LET numStr == digitRun(handStr, i)
           count == IF numStr = <<>> THEN 1 ELSE digitsValue(numStr)
           j == i + Len(numStr)
           fail(msg) == [error |-> msg, myKomadai |-> myKomadai,
                         opponentKomadai |-> opponentKomadai]
       IN  IF numStr # <<>> /\ count <= 0 THEN fail("hand count")
           ELSE IF j > Len(handStr) THEN fail("missing piece letter")
           ELSE LET ch == handStr[j]
                    owner == IF ch = toUpperCase(ch) THEN "self" ELSE "opponent"
                    upper == toUpperCase(ch)
                IN  IF <<upper>> \notin DOMAIN SFEN_PIECE_MAP THEN fail("hand piece")
                    ELSE IF SFEN_PIECE_MAP[<<upper>>].promoted THEN fail("promoted hand piece")
                    ELSE LET item == [type |-> SFEN_PIECE_MAP[<<upper>>].type,
                                      count |-> count]
                         IN  IF owner = "self"
                             THEN parseHands(handStr, j + 1,
                                             addOrUpdateKomadai(myKomadai, item),
                                             opponentKomadai)
                             ELSE parseHands(handStr, j + 1, myKomadai,
                                             addOrUpdateKomadai(opponentKomadai, item))

\* the result of a parseSFEN that threw
parseError(msg) ==
  [ok |-> FALSE, error |-> msg, boardState |-> EmptyBoard, turn |-> "none",
   myKomadai |-> <<>>, opponentKomadai |-> <<>>]

\* parseSFEN from the hands field on, the board b parsed: the result
parseHandField(parts, b) ==
  CHOOSE result \in
    {IF h.error # "" THEN parseError(h.error)
     ELSE [ok |-> TRUE, error |-> "",
           boardState |-> b.boardState,
           turn |-> IF parts[2] = <<"b">> THEN "self" ELSE "opponent",
           myKomadai |-> h.myKomadai,
           opponentKomadai |-> h.opponentKomadai] :
     h \in {IF parts[3] # <<"-">> THEN parseHands(parts[3], 1, <<>>, <<>>)
            ELSE [error |-> "", myKomadai |-> <<>>, opponentKomadai |-> <<>>]}} : TRUE

\* parseSFEN from the board field on, the fields split
parseBoardField(parts) ==
  CHOOSE result \in
    {IF Len(rows) # BOARD_SIZE THEN parseError("rows")
     ELSE CHOOSE afterBoard \in
            {IF b.error # "" THEN parseError(b.error) ELSE parseHandField(parts, b) :
             b \in {parseRows(rows, 1, 0, EmptyBoard)}} : TRUE :
     rows \in {splitOn(parts[1], "/")}} : TRUE

\* parseSFEN: ok with the position, or the error it throws.  The boardState
\* map is the 81-cell array applySFEN builds from it.  The display label of
\* a hand item is not modelled.  Each const of the source is bound to its
\* value once, as the one element of a set.
parseSFEN(sfen) ==
  CHOOSE result \in
    {IF Len(parts) < 3 \/ parts[1] = <<>> THEN parseError("fields")
     ELSE IF parts[2] # <<"b">> /\ parts[2] # <<"w">> THEN parseError("turn")
     ELSE parseBoardField(parts) :
     parts \in {splitFields(sfen)}} : TRUE

pieceToSfenChar(piece) ==
  LET baseChar == PIECE_TYPE_TO_SFEN[piece.type]
      char == IF piece.owner = "self" THEN baseChar ELSE toLowerCase(baseChar)
  IN  IF piece.promoted THEN <<"+", char>> ELSE <<char>>

\* the inner loop of buildBoardString over the columns of one rank
RECURSIVE buildRow(_, _, _, _)
buildRow(cells, rowIdx, colIdx, emptyCount) ==
  IF colIdx >= BOARD_SIZE
  THEN IF emptyCount > 0 THEN numberToString(emptyCount) ELSE <<>>
  ELSE LET piece == cells[rowIdx * BOARD_SIZE + colIdx]
       IN  IF piece = NoPiece THEN buildRow(cells, rowIdx, colIdx + 1, emptyCount + 1)
           ELSE (IF emptyCount > 0 THEN numberToString(emptyCount) ELSE <<>>)
                \o pieceToSfenChar(piece)
                \o buildRow(cells, rowIdx, colIdx + 1, 0)

\* rows.join('/')
RECURSIVE joinRows(_, _)
joinRows(rows, sep) ==
  IF Len(rows) = 0 THEN <<>>
  ELSE IF Len(rows) = 1 THEN rows[1]
  ELSE rows[1] \o sep \o joinRows(Tail(rows), sep)

buildBoardString(cells) ==
  joinRows([rowIdx \in 1..BOARD_SIZE |-> buildRow(cells, rowIdx - 1, 0, 0)], <<"/">>)

handOrder == <<"Rook", "Bishop", "Gold", "Silver", "Knight", "Lance", "Pawn">>

\* list.find((k) => k.type === type): the first item of the type, or NoItem
NoItem == [type |-> "None", count |-> 0]

findItem(list, type) ==
  IF \E k \in 1..Len(list) : list[k].type = type
  THEN list[CHOOSE k \in 1..Len(list) :
              list[k].type = type /\ \A m \in 1..(k - 1) : list[m].type # type]
  ELSE NoItem

\* one of the two for loops of buildHandString, from handOrder[k] on
RECURSIVE handParts(_, _, _)
handParts(komadai, k, lower) ==
  IF k > Len(handOrder) THEN <<>>
  ELSE LET item == findItem(komadai, handOrder[k])
           char == IF lower THEN toLowerCase(PIECE_TYPE_TO_SFEN[handOrder[k]])
                   ELSE PIECE_TYPE_TO_SFEN[handOrder[k]]
       IN  (IF item # NoItem /\ item.count > 0
            THEN (IF item.count > 1 THEN numberToString(item.count) ELSE <<>>) \o <<char>>
            ELSE <<>>)
           \o handParts(komadai, k + 1, lower)

buildHandString(myKomadai, opponentKomadai) ==
  LET parts == handParts(myKomadai, 1, FALSE) \o handParts(opponentKomadai, 1, TRUE)
  IN  IF Len(parts) > 0 THEN parts ELSE <<"-">>

toSFEN(cells, turn, myKomadai, opponentKomadai, moveNumber) ==
  buildBoardString(cells) \o <<" ">>
    \o <<IF turn = "self" THEN "b" ELSE "w">> \o <<" ">>
    \o buildHandString(myKomadai, opponentKomadai) \o <<" ">>
    \o numberToString(moveNumber)

(***************************************************************************)
(* Move rendering (utils/typeGuards.ts): toFullUsiMove and toKIFMove.  The *)
(* Japanese glyphs of the KIF text are written by their names: "fw1" ..    *)
(* "fw9" the full-width digits, "ichi" .. "kyu" the rank numerals, "dou"   *)
(* the same-square sign with its space, "utsu" the drop sign.              *)
(***************************************************************************)
\* String.prototype.slice(start, end) with 0 <= start <= end
slice(str, start, end) ==
  IF start >= Len(str) THEN <<>>
  ELSE SubSeq(str, start + 1, IF end < Len(str) THEN end ELSE Len(str))

\* String.prototype.trim
RECURSIVE trim(_)
trim(str) ==
  IF str = <<>> THEN str
  ELSE IF str[1] = " " THEN trim(SubSeq(str, 2, Len(str)))
  ELSE IF str[Len(str)] = " " THEN trim(SubSeq(str, 1, Len(str) - 1))
  ELSE str

\* str[idx] with idx from 0: the empty string stands for undefined
charAt(str, idx) == IF idx < Len(str) THEN str[idx + 1] ELSE ""

\* the position of a rank character in 'a' .. 'i', from 0; NoIndex outside
rankOffset(rankChar) ==
  IF \E k \in 1..BOARD_SIZE : LowerChars[k] = rankChar
  THEN (CHOOSE k \in 1..BOARD_SIZE : LowerChars[k] = rankChar) - 1
  ELSE NoIndex

\* usiSquareToIndex: NoIndex for null
usiSquareToIndex(square) ==
  IF Len(square) < 2 THEN NoIndex
  ELSE LET fileChar == square[1]
           rankChar == square[2]
       IN  IF ~isDigitChar(fileChar) THEN NoIndex
           ELSE IF digitValue(fileChar) < 1 \/ digitValue(fileChar) > 9 THEN NoIndex
           ELSE IF rankOffset(rankChar) = NoIndex THEN NoIndex
           ELSE rankOffset(rankChar) * BOARD_SIZE + (9 - digitValue(fileChar))

\* usiRankCharToNumber: 0 for null
usiRankCharToNumber(rankChar) ==
  IF rankOffset(rankChar) = NoIndex THEN 0 ELSE rankOffset(rankChar) + 1

KIF_FILE_DIGITS == <<"fw1", "fw2", "fw3", "fw4", "fw5", "fw6", "fw7", "fw8", "fw9">>

KIF_RANK_KANJI == <<"ichi", "ni", "san", "yon", "go", "roku", "nana", "hachi", "kyu">>

\* usiSquareToKifDest: the empty text for null
usiSquareToKifDest(square) ==
  IF Len(square) < 2 THEN <<>>
  ELSE LET fileChar == square[1]
           rankChar == square[2]
       IN  IF ~isDigitChar(fileChar) \/ fileChar = "0" THEN <<>>
           ELSE IF rankOffset(rankChar) = NoIndex THEN <<>>
           ELSE <<KIF_FILE_DIGITS[digitValue(fileChar)],
                  KIF_RANK_KANJI[rankOffset(rankChar) + 1]>>

\* usiSquareToKifOrigin: the empty text for null
usiSquareToKifOrigin(square) ==
  IF Len(square) < 2 THEN <<>>
  ELSE LET fileChar == square[1]
           rankNumber == usiRankCharToNumber(square[2])
       IN  IF rankNumber = 0 THEN <<>>
           ELSE <<"(", fileChar, DigitChars[rankNumber + 1], ")">>

SFEN_LETTER_TO_TYPE ==
  [ch \in {"P", "L", "N", "S", "G", "K", "B", "R"} |->
     CASE ch = "P" -> "Pawn"   [] ch = "L" -> "Lance"  [] ch = "N" -> "Knight"
       [] ch = "S" -> "Silver" [] ch = "G" -> "Gold"   [] ch = "K" -> "King"
       [] ch = "B" -> "Bishop" [] ch = "R" -> "Rook"]

\* KIF_PIECE_LABEL_MAP: the empty name for a missing promoted label
KIF_PIECE_LABEL_MAP ==
  [Pawn   |-> [base |-> <<"fu">>, promoted |-> <<"to">>],
   Lance  |-> [base |-> <<"kyo">>, promoted |-> <<"nari", "kyo">>],
   Knight |-> [base |-> <<"kei">>, promoted |-> <<"nari", "kei">>],
   Silver |-> [base |-> <<"gin">>, promoted |-> <<"nari", "gin">>],
   Gold   |-> [base |-> <<"kin">>, promoted |-> <<>>],
   King   |-> [base |-> <<"gyoku">>, promoted |-> <<>>],
   Bishop |-> [base |-> <<"kaku">>, promoted |-> <<"uma">>],
   Rook   |-> [base |-> <<"hi">>, promoted |-> <<"ryu">>]]

\* null of parseFullUsiMove
NoParsedUsi ==
  [ok |-> FALSE, pieceType |-> "None", from |-> <<>>, to |-> <<>>,
   isDrop |-> FALSE, promoted |-> FALSE]

parseFullUsiMove(fullUsi) ==
  LET trimmed == trim(fullUsi)
      promotedPrefix == charAt(trimmed, 0) = "+"
      idx0 == IF promotedPrefix THEN 1 ELSE 0
      pieceChar == charAt(trimmed, idx0)
      idx == idx0 + 1
  IN  IF trimmed = <<>> THEN NoParsedUsi
      ELSE IF pieceChar = "" THEN NoParsedUsi
      ELSE IF toUpperCase(pieceChar) \notin DOMAIN SFEN_LETTER_TO_TYPE THEN NoParsedUsi
      ELSE IF charAt(trimmed, idx) = "*"
      THEN LET to == slice(trimmed, idx + 1, idx + 3)
           IN  IF Len(to) < 2 THEN NoParsedUsi
               ELSE [ok |-> TRUE, pieceType |-> SFEN_LETTER_TO_TYPE[toUpperCase(pieceChar)],
                     from |-> <<>>, to |-> to, isDrop |-> TRUE,
                     promoted |-> promotedPrefix]
      ELSE LET from == slice(trimmed, idx, idx + 2)
               markerPos == idx + 2
               marker == charAt(trimmed, markerPos)
               toStart == IF marker = "x" \/ marker = "-" THEN markerPos + 1 ELSE markerPos
               to == slice(trimmed, toStart, toStart + 2)
               suffix == slice(trimmed, toStart + 2, Len(trimmed))
               promotedSuffix == \E k \in 1..Len(suffix) : suffix[k] = "+"
           IN  IF Len(from) < 2 THEN NoParsedUsi
               ELSE IF Len(to) < 2 THEN NoParsedUsi
               ELSE [ok |-> TRUE, pieceType |-> SFEN_LETTER_TO_TYPE[toUpperCase(pieceChar)],
                     from |-> from, to |-> to, isDrop |-> FALSE,
                     promoted |-> promotedPrefix \/ promotedSuffix]

\* the body of the try block of toFullUsiMove: threw when parseSFEN throws
enrichFromPosition(trimmed, sfen) ==
  CHOOSE result \in
    {LET from == slice(trimmed, 0, 2)
         to == slice(trimmed, 2, 4)
         suffix == slice(trimmed, 4, Len(trimmed))
         piece == parsed.boardState[usiSquareToIndex(from)]
         target == parsed.boardState[usiSquareToIndex(to)]
     IN  IF ~parsed.ok THEN [threw |-> TRUE, value |-> <<>>]
         ELSE IF piece = NoPiece THEN [threw |-> FALSE, value |-> trimmed]
         ELSE [threw |-> FALSE,
               value |-> (IF piece.promoted THEN <<"+">> ELSE <<>>)
                         \o <<PIECE_TYPE_TO_SFEN[piece.type]>> \o from
                         \o <<IF target # NoPiece /\ target.owner # piece.owner
                              THEN "x" ELSE "-">>
                         \o to \o suffix] :
     parsed \in {parseSFEN(sfen)}} : TRUE

\* toFullUsiMove with parseSFEN called outside the try block
toFullUsiMove_noCatch(usi, sfen) ==
  LET trimmed == trim(usi)
  IN  IF trimmed = <<>> THEN [threw |-> FALSE, value |-> trimmed]
      ELSE IF \E k \in 1..Len(trimmed) : trimmed[k] = "*"
      THEN [threw |-> FALSE, value |-> trimmed]
      ELSE IF Len(trimmed) < 4 THEN [threw |-> FALSE, value |-> trimmed]
      ELSE IF usiSquareToIndex(slice(trimmed, 0, 2)) = NoIndex
              \/ usiSquareToIndex(slice(trimmed, 2, 4)) = NoIndex
      THEN [threw |-> FALSE, value |-> trimmed]
      ELSE enrichFromPosition(trimmed, sfen)

\* toFullUsiMove: the text returned, and whether the call threw
toFullUsiMove(usi, sfen) ==
  LET trimmed == trim(usi)
  IN  IF trimmed = <<>> THEN [threw |-> FALSE, value |-> trimmed]
      ELSE IF \E k \in 1..Len(trimmed) : trimmed[k] = "*"
      THEN [threw |-> FALSE, value |-> trimmed]
      ELSE IF Len(trimmed) < 4 THEN [threw |-> FALSE, value |-> trimmed]
      ELSE IF usiSquareToIndex(slice(trimmed, 0, 2)) = NoIndex
              \/ usiSquareToIndex(slice(trimmed, 2, 4)) = NoIndex
      THEN [threw |-> FALSE, value |-> trimmed]
      ELSE \* try { ... } catch { return trimmed }
           CHOOSE result \in
             {IF body.threw THEN [threw |-> FALSE, value |-> trimmed] ELSE body :
              body \in {enrichFromPosition(trimmed, sfen)}} : TRUE

\* toKIFMove: the text returned, and whether the call threw (a property read
\* on an undefined label entry); prevFullUsi is empty when not given
toKIFMove(fullUsi, prevFullUsi) ==
  LET parsed == parseFullUsiMove(fullUsi)
      prevParsed == IF prevFullUsi # <<>> THEN parseFullUsiMove(prevFullUsi)
                    ELSE NoParsedUsi
      sameSquare == prevParsed.ok /\ prevParsed.to = parsed.to
      dest == IF sameSquare THEN <<"dou">> ELSE usiSquareToKifDest(parsed.to)
  IN  IF ~parsed.ok THEN [threw |-> FALSE, value |-> <<>>]
      ELSE IF dest = <<>> THEN [threw |-> FALSE, value |-> <<>>]
      ELSE IF parsed.pieceType \notin DOMAIN KIF_PIECE_LABEL_MAP
      THEN [threw |-> TRUE, value |-> <<>>]
      ELSE LET labelInfo == KIF_PIECE_LABEL_MAP[parsed.pieceType]
               pieceName == IF parsed.promoted /\ labelInfo.promoted # <<>>
                            THEN labelInfo.promoted ELSE labelInfo.base
               origin == IF parsed.from # <<>> THEN usiSquareToKifOrigin(parsed.from)
                         ELSE <<>>
           IN  IF parsed.isDrop
               THEN [threw |-> FALSE, value |-> dest \o pieceName \o <<"utsu">>]
               ELSE [threw |-> FALSE, value |-> dest \o pieceName \o origin]

(***************************************************************************)
(* Game controller (components/ShogiGame.vue)                              *)
(***************************************************************************)
VARIABLES
  cells,            \* ShogiBoard.cells: the 81 cells
  myKomadai,        \* the hand of self: a sequence of [type, count]
  opponentKomadai,  \* the hand of the opponent
  currentTurn,      \* the side to move
  moveNumber,
  emitted,          \* the text of the last 'sfen-change' event
  syncEnabled,      \* the syncEnabled prop
  syncTimer,        \* TRUE while the poll interval is set
  lastSyncedSFEN,
  syncError,
  inflight,         \* polls whose response has not arrived yet
  q,                \* the last rules-engine query and its answer
  text,             \* the notation text handed to the codec
  decoded,          \* parseSFEN(text)
  decodedMoveNumber,\* the move number the controller reads from text
  encoded,          \* toSFEN of the decoded position
  redecoded,        \* parseSFEN(encoded)
  objects,          \* the piece objects of the heap; a reference is an index
  arrays,           \* the cell arrays of the heap: per cell a reference, 0 for null
  render,           \* the last move-rendering call: its arguments and its outcome
  engineQueue,      \* YaneuraOuEngineQueue and the engine it wraps
  usiEngine,        \* YaneuraOuEngine's line buffer, its waits and the engine process
  geminiService     \* the GeminiService component and its requests in flight

gameVars == <<cells, myKomadai, opponentKomadai, currentTurn, moveNumber, emitted,
              syncEnabled, syncTimer, lastSyncedSFEN, syncError, inflight>>
codecVars == <<text, decoded, decodedMoveNumber, encoded, redecoded>>
heapVars == <<objects, arrays>>

\* no rendering call made yet
NoRender == [op |-> "none", usi |-> <<>>, prev |-> <<>>, threw |-> FALSE, value |-> <<>>]
asyncVars == <<engineQueue, usiEngine, geminiService>>
vars == <<gameVars, q, codecVars, heapVars, render, asyncVars>>

\* the requests a client hands to enqueueAnalysis
MaxRequests == 3
Requests == 1..MaxRequests

\* a fresh YaneuraOuEngineQueue over a fresh YaneuraOuEngine
NewEngineQueue ==
  [queue |-> <<>>,                          \* ids of the items waiting
   processing |-> FALSE,
   disposed |-> FALSE,
   sfen |-> [r \in Requests |-> <<>>],       \* params.sfen of each item
   outcome |-> [r \in Requests |-> "none"],  \* none, pending, resolved, rejected
   settles |-> [r \in Requests |-> 0],       \* calls of item.resolve and item.reject
   arrivedBusy |-> {},                      \* items enqueued while an analysis ran
   calls |-> [r \in Requests |-> "none"],    \* engine.analyze: none, init, bestmove
   initPromise |-> "null",                  \* null, pending, resolved
   analyzing |-> FALSE,
   engineDisposed |-> FALSE,
   searching |-> FALSE,                     \* the engine process is in a search
   posted |-> <<>>]                         \* the commands posted to the engine

\* a fresh YaneuraOuEngine with its instance attached, nothing posted yet
NewUsiEngine ==
  [recentLines |-> <<>>,
   emittedLines |-> 0,       \* lines ever passed to emitLine
   outbox |-> <<>>,          \* lines the engine process has still to write
   script |-> "idle",        \* the await init or applyParamsReactive stands at
   applies |-> 0,            \* functions waiting in applyQueue
   changes |-> 0,            \* settings changes so far
   initDone |-> FALSE,
   waits |-> <<>>]           \* the waitForLine calls of postAndWait, the last is current

\* a mounted GeminiService with no analysis yet
NewGeminiService ==
  [analysis |-> 0,           \* the analyses given so far: the prop holds the last, 0 for null
   hasBestmove |-> FALSE,    \* the analysis held has a bestmove
   requested |-> 0,          \* tryRequest calls that reached requestGeminiCoach
   position |-> <<>>,        \* the analysis each request was made for
   pending |-> {},           \* the requests not answered yet
   loading |-> FALSE,
   lastResult |-> 0,         \* the request whose response is held, 0 for null
   lastError |-> "",
   results |-> <<>>]         \* the 'result' events emitted, by request

DEFAULT_SFEN ==
  <<"l", "n", "s", "g", "k", "g", "s", "n", "l", "/",
    "1", "r", "5", "b", "1", "/",
    "p", "p", "p", "p", "p", "p", "p", "p", "p", "/",
    "9", "/", "9", "/", "9", "/",
    "P", "P", "P", "P", "P", "P", "P", "P", "P", "/",
    "1", "B", "5", "R", "1", "/",
    "L", "N", "S", "G", "K", "G", "S", "N", "L",
    " ", "b", " ", "-", " ", "1">>

\* null in the source: the last field is not a number
NoNumber == -1000000

\* Number.parseInt(last, 10): an optional sign and the leading digits
parseIntPrefix(str) ==
  LET signed == Len(str) > 0 /\ (str[1] = "-" \/ str[1] = "+")
      digits == digitRun(str, IF signed THEN 2 ELSE 1)
  IN  IF digits = <<>> THEN NoNumber
      ELSE IF signed /\ str[1] = "-" THEN -digitsValue(digits)
      ELSE digitsValue(digits)

extractMoveNumberFromSFEN(sfen) ==
  CHOOSE n \in {IF parts[Len(parts)] = <<>> THEN NoNumber
                ELSE parseIntPrefix(parts[Len(parts)]) :
                parts \in {splitFields(sfen)}} : TRUE

\* applySFEN: the position after it; ok is FALSE, and nothing changes, when
\* parseSFEN throws
applySFEN(sfen, oldMoveNumber) ==
  CHOOSE applied \in
    {[ok |-> parsed.ok,
      cells |-> parsed.boardState,
      myKomadai |-> parsed.myKomadai,
      opponentKomadai |-> parsed.opponentKomadai,
      currentTurn |-> parsed.turn,
      moveNumber |-> IF mn # NoNumber THEN mn ELSE oldMoveNumber] :
     parsed \in {parseSFEN(sfen)}, mn \in {extractMoveNumberFromSFEN(sfen)}} : TRUE

hasInKomadai(komadai, type) ==
  LET item == findItem(komadai, type)
  IN  item # NoItem /\ item.count > 0

\* capturePiece on the capturer's hand: the captured piece's type is counted
capturePiece(komadai, piece) ==
  IF \E k \in 1..Len(komadai) : komadai[k].type = piece.type
  THEN LET k == CHOOSE j \in 1..Len(komadai) :
                  komadai[j].type = piece.type
                  /\ \A m \in 1..(j - 1) : komadai[m].type # piece.type
       IN  [komadai EXCEPT ![k].count = @ + 1]
  ELSE Append(komadai, [type |-> piece.type, count |-> 1])

\* removeFromKomadai without the splice: the entry stays with count 0
removeFromKomadai_keepsZero(komadai, type) ==
  IF ~\E k \in 1..Len(komadai) : komadai[k].type = type THEN komadai
  ELSE LET k == CHOOSE j \in 1..Len(komadai) :
                  komadai[j].type = type
                  /\ \A m \in 1..(j - 1) : komadai[m].type # type
           count == IF komadai[k].count - 1 < 0 THEN 0 ELSE komadai[k].count - 1
       IN  [komadai EXCEPT ![k].count = count]

\* removeFromKomadai on the owner's hand
removeFromKomadai(komadai, type) ==
  IF ~\E k \in 1..Len(komadai) : komadai[k].type = type THEN komadai
  ELSE LET k == CHOOSE j \in 1..Len(komadai) :
                  komadai[j].type = type
                  /\ \A m \in 1..(j - 1) : komadai[m].type # type
           count == IF komadai[k].count - 1 < 0 THEN 0 ELSE komadai[k].count - 1
       IN  IF count = 0
           THEN SubSeq(komadai, 1, k - 1) \o SubSeq(komadai, k + 1, Len(komadai))
           ELSE [komadai EXCEPT ![k].count = count]


(***************************************************************************)
(* Rules-engine queries on a position: the calls ShogiBoard and BotCoach   *)
(* make (legal moves of a dragged piece, drop targets of a hand piece,     *)
(* hanging pieces) and the exported isInCheck / isCheckmate.               *)
(***************************************************************************)
\* how many cells of a scene's window its pieces are placed on
WindowSize == 4

\* the largest hand count a scene starts with
MaxHandCount == 2

NoQuery == [op |-> "none", owner |-> "none", kind |-> "None", index |-> NoIndex,
            hands |-> FALSE, moves |-> {}, flag |-> FALSE, hanging |-> <<>>]

\* the board with both sides exchanged: turned by 180 degrees, owners swapped
Mirror(b) ==
  [i \in Cells |->
     IF b[BOARD_CELLS - 1 - i] = NoPiece THEN NoPiece
     ELSE [b[BOARD_CELLS - 1 - i] EXCEPT !.owner = opponentOwner(@)]]

\* the scenes the queries are asked on: a cast of pieces, the cells they may
\* stand on (the first WindowSize of the window), and the hands
Scenes ==
  << \* a King in its corner against a Rook and a Gold, close by
     [cast |-> <<create("King", "self"), create("Rook", "opponent"),
                 create("Gold", "opponent")>>,
      window |-> <<80, 79, 61, 62, 71, 70, 78, 69, 60>>,
      my |-> <<[type |-> "Gold", count |-> 1]>>,
      opp |-> <<[type |-> "Pawn", count |-> 1]>>],
     \* the same King checked from a distance, a drop can interpose
     [cast |-> <<create("King", "self"), create("Rook", "opponent"),
                 create("Gold", "opponent")>>,
      window |-> <<80, 71, 62, 78, 69, 70, 79, 60, 61>>,
      my |-> <<[type |-> "Gold", count |-> 1]>>,
      opp |-> <<[type |-> "Pawn", count |-> 1]>>],
     \* a Gold attacked by a Pawn and a Gold, a Rook behind the attacker
     [cast |-> <<create("Gold", "self"), create("Pawn", "opponent"),
                 create("Gold", "opponent"), create("Rook", "self")>>,
      window |-> <<58, 49, 67, 76, 57, 48, 66, 75, 59>>,
      my |-> <<[type |-> "Lance", count |-> 1]>>,
      opp |-> <<[type |-> "Knight", count |-> 1]>>],
     \* pawns and a promoted pawn on neighbouring files
     [cast |-> <<create("Pawn", "self"), promote(create("Pawn", "self")),
                 create("Pawn", "opponent")>>,
      window |-> <<40, 31, 41, 13, 4, 32, 22, 5, 14>>,
      my |-> <<[type |-> "Pawn", count |-> MaxHandCount]>>,
      opp |-> <<[type |-> "Pawn", count |-> 1]>>],
     \* two Kings of one side against a Rook, a Pawn in each hand
     [cast |-> <<create("King", "self"), create("King", "self"),
                 create("Rook", "opponent")>>,
      window |-> <<80, 79, 61, 70, 62, 71, 78, 69, 60>>,
      my |-> <<[type |-> "Pawn", count |-> 1]>>,
      opp |-> <<[type |-> "Pawn", count |-> 1]>>] >>

\* the boards of a scene: its cast on distinct cells of its window
SceneBoards(scene) ==
  LET n == Len(scene.cast)
      places == {f \in [1..n -> 1..WindowSize] :
                   \A a, b \in 1..n : a # b => f[a] # f[b]}
  IN  {[i \in Cells |->
          IF \E a \in 1..n : scene.window[f[a]] = i
          THEN scene.cast[CHOOSE a \in 1..n : scene.window[f[a]] = i]
          ELSE NoPiece] : f \in places}

RulesInit ==
  /\ \E k \in 1..Len(Scenes) : \E flip \in BOOLEAN : \E b \in SceneBoards(Scenes[k]) :
       /\ cells = IF flip THEN Mirror(b) ELSE b
       /\ myKomadai = IF flip THEN Scenes[k].opp ELSE Scenes[k].my
       /\ opponentKomadai = IF flip THEN Scenes[k].my ELSE Scenes[k].opp
  /\ currentTurn = "self"
  /\ moveNumber = 1
  /\ emitted = <<>>
  /\ syncEnabled = FALSE
  /\ syncTimer = FALSE
  /\ lastSyncedSFEN = <<>>
  /\ syncError = ""
  /\ inflight = 0
  /\ q = NoQuery
  /\ objects = <<>>
  /\ arrays = <<>>
  /\ render = NoRender
  /\ engineQueue = NewEngineQueue
  /\ usiEngine = NewUsiEngine
  /\ geminiService = NewGeminiService
  /\ text = <<>>
  /\ decoded = parseError("")
  /\ decodedMoveNumber = NoNumber
  /\ encoded = <<>>
  /\ redecoded = parseError("")

\* the hands argument of a query: both hands, or omitted
handsArg(withHands) ==
  IF withHands THEN [self |-> myKomadai, opponent |-> opponentKomadai] ELSE NoHands

\* ShogiBoard.onDragStart / handleCellClick: the legal moves of the piece on a cell
QueryLegalMoves(i) ==
  /\ q = NoQuery
  /\ cells[i] # NoPiece
  /\ q' = [NoQuery EXCEPT !.op = "legalMoves", !.index = i,
                          !.owner = cells[i].owner, !.kind = cells[i].type,
                          !.moves = calculateLegalMovesOnBoard(cells[i], i, cells)]
  /\ UNCHANGED <<gameVars, codecVars, heapVars, render, asyncVars>>

\* ShogiBoard.previewDropTargets, and the same call with the hands supplied
QueryLegalDrops(kind, owner, withHands) ==
  /\ q = NoQuery
  /\ hasInKomadai(IF owner = "self" THEN myKomadai ELSE opponentKomadai, kind)
  /\ q' = [NoQuery EXCEPT !.op = "legalDrops", !.kind = kind, !.owner = owner,
                          !.hands = withHands,
                          !.moves = calculateLegalDrops(kind, owner, cells,
                                                        handsArg(withHands))]
  /\ UNCHANGED <<gameVars, codecVars, heapVars, render, asyncVars>>

QueryIsInCheck(owner) ==
  /\ q = NoQuery
  /\ q' = [NoQuery EXCEPT !.op = "isInCheck", !.owner = owner,
                          !.flag = isInCheck(owner, cells)]
  /\ UNCHANGED <<gameVars, codecVars, heapVars, render, asyncVars>>

QueryIsCheckmate(owner, withHands) ==
  /\ q = NoQuery
  /\ q' = [NoQuery EXCEPT !.op = "isCheckmate", !.owner = owner, !.hands = withHands,
                          !.flag = isCheckmate(owner, cells, handsArg(withHands))]
  /\ UNCHANGED <<gameVars, codecVars, heapVars, render, asyncVars>>

\* BotCoach: the hanging pieces of a side
QueryHanging(owner) ==
  /\ q = NoQuery
  /\ q' = [NoQuery EXCEPT !.op = "findHangingPieces", !.owner = owner,
                          !.hanging = findHangingPieces(cells, owner)]
  /\ UNCHANGED <<gameVars, codecVars, heapVars, render, asyncVars>>

RulesNext ==
  \/ \E i \in Cells : QueryLegalMoves(i)
  \/ \E kind \in PieceType, owner \in PlayerOwner, withHands \in BOOLEAN :
       QueryLegalDrops(kind, owner, withHands)
  \/ \E owner \in PlayerOwner : QueryIsInCheck(owner)
  \/ \E owner \in PlayerOwner, withHands \in BOOLEAN : QueryIsCheckmate(owner, withHands)
  \/ \E owner \in PlayerOwner : QueryHanging(owner)

RulesSpec == RulesInit /\ [][RulesNext]_vars

(***************************************************************************)
(* One piece on the board, with or without pieces in its way: its          *)
(* promotion and the destinations its movement matrix gives.               *)
(***************************************************************************)
\* the cells the piece stands on
Origins == {0, 8, 40, 70, 80}

\* the cells a piece in its way stands on
BlockCells == {61, 52, 31, 39}

PieceInit ==
  /\ \E type \in PieceType, owner \in PlayerOwner, from \in Origins :
     \E own \in BlockCells \cup {NoIndex}, opp \in BlockCells \cup {NoIndex} :
       /\ own = NoIndex \/ own # opp
       /\ cells = [i \in Cells |->
                     IF i = from THEN create(type, owner)
                     ELSE IF i = own THEN create("Pawn", owner)
                     ELSE IF i = opp THEN create("Pawn", opponentOwner(owner))
                     ELSE NoPiece]
  /\ myKomadai = <<>>
  /\ opponentKomadai = <<>>
  /\ currentTurn = "self"
  /\ moveNumber = 1
  /\ emitted = <<>>
  /\ syncEnabled = FALSE
  /\ syncTimer = FALSE
  /\ lastSyncedSFEN = <<>>
  /\ syncError = ""
  /\ inflight = 0
  /\ q = NoQuery
  /\ objects = <<>>
  /\ arrays = <<>>
  /\ render = NoRender
  /\ engineQueue = NewEngineQueue
  /\ usiEngine = NewUsiEngine
  /\ geminiService = NewGeminiService
  /\ text = <<>>
  /\ decoded = parseError("")
  /\ decodedMoveNumber = NoNumber
  /\ encoded = <<>>
  /\ redecoded = parseError("")

\* piece.promote() on the piece of a cell; q.flag tells whether it was
\* promoted before
PromotePiece(i) ==
  /\ q.op \in {"none", "promote"}
  /\ cells[i] # NoPiece
  /\ cells' = [cells EXCEPT ![i] = promote(@)]
  /\ q' = [NoQuery EXCEPT !.op = "promote", !.index = i, !.owner = cells[i].owner,
                          !.kind = cells[i].type, !.flag = cells[i].promoted]
  /\ UNCHANGED <<myKomadai, opponentKomadai, currentTurn, moveNumber, emitted,
                 syncEnabled, syncTimer, lastSyncedSFEN, syncError, inflight,
                 codecVars, heapVars, render, asyncVars>>

\* calculatePseudoLegalMovesOnBoard of the piece of a cell
QueryPseudoLegalMoves(i) ==
  /\ q.op \in {"none", "promote"}
  /\ cells[i] # NoPiece
  /\ q' = [NoQuery EXCEPT !.op = "pseudoLegalMoves", !.index = i,
                          !.owner = cells[i].owner, !.kind = cells[i].type,
                          !.moves = calculatePseudoLegalMovesOnBoard(cells[i], i, cells)]
  /\ UNCHANGED <<gameVars, codecVars, heapVars, render, asyncVars>>

PieceNext ==
  \/ \E i \in Origins : PromotePiece(i)
  \/ \E i \in Cells : QueryPseudoLegalMoves(i)

PieceSpec == PieceInit /\ [][PieceNext]_vars

(***************************************************************************)
(* The simulate functions on the heap: a board is an array of references   *)
(* to piece objects, and the functions write to arrays and objects.        *)
(***************************************************************************)
\* the arrays the heap holds at most: the caller's and the simulated ones
MaxArrays == 3

\* the cells the simulated moves, captures and drops go from and to
HeapCells == {80, 79, 61}

\* cells.slice() returning the array it was given
cloneCells_alias(arrs, a) == [arrays |-> arrs, ref |-> a]

\* cells.slice(): a new array holding the same references
cloneCells(arrs, a) == [arrays |-> Append(arrs, arrs[a]), ref |-> Len(arrs) + 1]

\* simulateMove on the heap: the heap after the call
simulateMoveOnHeap(objs, arrs, a, fromIndex, toIndex) ==
  LET next == cloneCells(arrs, a)
      piece == arrs[a][fromIndex]
  IN  IF piece = 0 THEN [objects |-> objs, arrays |-> next.arrays]
      ELSE [objects |-> Append(objs, clonePiece(objs[piece], objs[piece].promoted)),
            arrays |-> [next.arrays EXCEPT ![next.ref][fromIndex] = 0,
                                           ![next.ref][toIndex] = Len(objs) + 1]]

\* simulateDrop on the heap
simulateDropOnHeap(objs, arrs, a, toIndex, pieceType, owner) ==
  LET next == cloneCells(arrs, a)
  IN  [objects |-> Append(objs, create(pieceType, owner)),
       arrays |-> [next.arrays EXCEPT ![next.ref][toIndex] = Len(objs) + 1]]

\* simulateCapture on the heap: the attacker's object is shared, not cloned
simulateCaptureOnHeap(objs, arrs, a, fromIndex, toIndex) ==
  LET next == cloneCells(arrs, a)
      attacker == arrs[a][fromIndex]
  IN  IF attacker = 0 THEN [objects |-> objs, arrays |-> next.arrays]
      ELSE [objects |-> objs,
            arrays |-> [next.arrays EXCEPT ![next.ref][fromIndex] = 0,
                                           ![next.ref][toIndex] = attacker]]

\* the occupied cells of a board below cell i
occupiedBelow(board, i) == {j \in Cells : j < i /\ board[j] # NoPiece}

\* the boards the caller holds: the King on 80 attacked by the Rook on 79
HeapBoards ==
  {b \in SceneBoards(Scenes[1]) :
     b[80] # NoPiece /\ b[80].type = "King" /\ b[79] # NoPiece /\ b[79].type = "Rook"}

HeapInit ==
  /\ \E b \in HeapBoards :
       /\ cells = b
       /\ objects = [r \in 1..Cardinality({i \in Cells : b[i] # NoPiece}) |->
                       b[CHOOSE i \in Cells :
                           b[i] # NoPiece /\ Cardinality(occupiedBelow(b, i)) = r - 1]]
       /\ arrays = <<[i \in Cells |->
                        IF b[i] = NoPiece THEN 0
                        ELSE Cardinality(occupiedBelow(b, i)) + 1]>>
  /\ myKomadai = <<>>
  /\ opponentKomadai = <<>>
  /\ currentTurn = "self"
  /\ moveNumber = 1
  /\ emitted = <<>>
  /\ syncEnabled = FALSE
  /\ syncTimer = FALSE
  /\ lastSyncedSFEN = <<>>
  /\ syncError = ""
  /\ inflight = 0
  /\ q = NoQuery
  /\ text = <<>>
  /\ decoded = parseError("")
  /\ decodedMoveNumber = NoNumber
  /\ encoded = <<>>
  /\ redecoded = parseError("")
  /\ render = NoRender
  /\ engineQueue = NewEngineQueue
  /\ usiEngine = NewUsiEngine
  /\ geminiService = NewGeminiService

\* simulateMove(arrays[a], from, to), as isMoveKingSafe calls it
SimulateMove(a, from, to) ==
  /\ Len(arrays) < MaxArrays
  /\ \E h \in {simulateMoveOnHeap(objects, arrays, a, from, to)} :
       objects' = h.objects /\ arrays' = h.arrays
  /\ UNCHANGED <<gameVars, q, codecVars, render, asyncVars>>

\* simulateDrop(arrays[a], to, pieceType, owner), as isDropKingSafe and
\* isPawnDropMate call it
SimulateDrop(a, to, pieceType, owner) ==
  /\ Len(arrays) < MaxArrays
  /\ \E h \in {simulateDropOnHeap(objects, arrays, a, to, pieceType, owner)} :
       objects' = h.objects /\ arrays' = h.arrays
  /\ UNCHANGED <<gameVars, q, codecVars, render, asyncVars>>

\* simulateCapture(arrays[a], from, to), as hasLegalRecaptureAfterCapture
\* calls it
SimulateCapture(a, from, to) ==
  /\ Len(arrays) < MaxArrays
  /\ \E h \in {simulateCaptureOnHeap(objects, arrays, a, from, to)} :
       objects' = h.objects /\ arrays' = h.arrays
  /\ UNCHANGED <<gameVars, q, codecVars, render, asyncVars>>

HeapNext ==
  \/ \E a \in 1..Len(arrays), from \in HeapCells, to \in HeapCells : SimulateMove(a, from, to)
  \/ \E a \in 1..Len(arrays), to \in HeapCells, owner \in PlayerOwner :
       SimulateDrop(a, to, "Pawn", owner)
  \/ \E a \in 1..Len(arrays), from \in HeapCells, to \in HeapCells :
       SimulateCapture(a, from, to)

HeapSpec == HeapInit /\ [][HeapNext]_vars

(***************************************************************************)
(* Move rendering as the coach calls it: a short move of the engine is     *)
(* enriched from the position text, and a full move is rendered in KIF.    *)
(***************************************************************************)
\* the position texts: a promoted self Bishop on 8h facing an opponent Pawn on
\* 7g and a self Pawn on 8g; the same without move number; two malformed ones
RenderTexts ==
  { <<"9", "/", "9", "/", "9", "/", "9", "/", "9", "/", "9", "/",
      "1", "P", "p", "6", "/", "1", "+", "B", "7", "/", "9", " ", "b", " ", "-", " ", "1">>,
    <<"9", "/", "9", "/", "9", "/", "9", "/", "9", "/", "9", "/",
      "1", "P", "p", "6", "/", "1", "+", "B", "7", "/", "9", " ", "w", " ", "P">>,
    <<"9", "/", "9", " ", "b", " ", "-">>,
    <<>> }

\* the short moves of the engine, some of them malformed
UsiMoves ==
  { <<"8", "h", "7", "g">>, <<"8", "h", "8", "g">>, <<"8", "h", "9", "i">>,
    <<"7", "g", "7", "h", "+">>, <<"5", "e", "5", "d">>,
    <<" ", "8", "h", "7", "g", " ">>, <<" ", "5", "e", "5", "d">>,
    <<"P", "*", "5", "e">>, <<" ", "P", "*", "5", "e", " ">>, <<"*">>,
    <<>>, <<" ", " ">>, <<"8", "h">>, <<"8", "h", "7">>,
    <<"0", "h", "7", "g">>, <<"8", "h", "7", "z">>, <<"h", "8", "g", "7">>,
    <<"r", "e", "s", "i", "g", "n">> }

\* full moves that toFullUsiMove did not write, some of them malformed
FullMoves ==
  { <<"P", "*", "5", "e">>, <<"+", "R", "2", "h", "x", "7", "g">>,
    <<"G", "4", "i", "5", "h">>, <<"s", "3", "c", "-", "7", "g", "+">>,
    <<"+", "G", "6", "i", "-", "7", "g">>, <<"P", "z", "z", "-", "7", "f">>,
    <<"P", "7", "g", "-", "z", "z">>, <<"X", "7", "g", "-", "7", "f">>,
    <<"P", "*", "5">>, <<"+">>, <<"P", "7", "g", "-", "7">>, <<"7", "g", "7", "f">> }

\* the previous full moves: none, one to 7g, and a malformed one
PrevMoves ==
  { <<>>, <<"P", "7", "f", "-", "7", "g">>, <<"P", "7", "g", "-", "z", "z">>, <<"?">> }

RenderInit ==
  /\ text \in RenderTexts
  /\ render = NoRender
  /\ engineQueue = NewEngineQueue
  /\ usiEngine = NewUsiEngine
  /\ geminiService = NewGeminiService
  /\ cells = EmptyBoard
  /\ myKomadai = <<>>
  /\ opponentKomadai = <<>>
  /\ currentTurn = "self"
  /\ moveNumber = 1
  /\ emitted = <<>>
  /\ syncEnabled = FALSE
  /\ syncTimer = FALSE
  /\ lastSyncedSFEN = <<>>
  /\ syncError = ""
  /\ inflight = 0
  /\ q = NoQuery
  /\ decoded = parseError("")
  /\ decodedMoveNumber = NoNumber
  /\ encoded = <<>>
  /\ redecoded = parseError("")
  /\ objects = <<>>
  /\ arrays = <<>>

\* llmService: toFullUsiMove(e.bestmove, sfen)
ToFullUsiMove(usi) ==
  /\ render.op = "none"
  /\ \E r \in {toFullUsiMove(usi, text)} :
       render' = [op |-> "toFullUsiMove", usi |-> usi, prev |-> <<>>,
                  threw |-> r.threw, value |-> r.value]
  /\ UNCHANGED <<gameVars, q, codecVars, heapVars, asyncVars>>

\* toKIFMove(fullUsi, prevFullUsi), on the full move just written or on
\* another one
ToKIFMove(fullUsi, prevFullUsi) ==
  /\ \/ render.op = "none" /\ fullUsi \in FullMoves
     \/ render.op = "toFullUsiMove" /\ ~render.threw /\ fullUsi = render.value
  /\ \E r \in {toKIFMove(fullUsi, prevFullUsi)} :
       render' = [op |-> "toKIFMove", usi |-> fullUsi, prev |-> prevFullUsi,
                  threw |-> r.threw, value |-> r.value]
  /\ UNCHANGED <<gameVars, q, codecVars, heapVars, asyncVars>>

RenderNext ==
  \/ \E usi \in UsiMoves : ToFullUsiMove(usi)
  \/ \E fullUsi \in FullMoves \cup {render.value}, prevFullUsi \in PrevMoves :
       ToKIFMove(fullUsi, prevFullUsi)

RenderSpec == RenderInit /\ [][RenderNext]_vars

(***************************************************************************)
(* The controller's handlers                                               *)
(***************************************************************************)
\* polls that may be in flight at once
MaxInflight == 1

\* with sync in play, local moves and drops are taken while moveNumber is
\* below this
MaxMoveNumber == 2

\* the cells the user drags from and drops on
UserCells == {0, 1, 9, 10, 18, 27, 63, 72, 79, 80}

\* the ply values a poll response carries
SyncPlies == {0, 4}

\* the position texts a poll response carries
SyncTexts ==
  { <<"4", "k", "4", "/", "9", "/", "9", "/", "9", "/", "9", "/", "9", "/", "9", "/", "9", "/", "4", "K", "4", " ", "b", " ", "K", "k", " ", "1">>,
    <<"k", "8", "/", "R", "8", "/", "9", "/", "9", "/", "9", "/", "9", "/", "9", "/", "9", "/", "8", "K", " ", "b", " ", "-", " ", "1">>,
    <<"8", "k", "/", "9", "/", "9", "/", "9", "/", "9", "/", "9", "/", "9", "/", "9", "/", "K", "8", " ", "w", " ", "2", "P", "p", " ", "5">>,
    <<"8", "k", "/", "P", "8", "/", "9", "/", "9", "/", "9", "/", "9", "/", "9", "/", "9", "/", "K", "8", " ", "b", " ", "-">>,
    <<"9", "/", "9", " ", "b", " ", "-", " ", "1">>,
    <<"k", "8", "/", "9", "/", "G", "8", "/", "9", "/", "9", "/", "9", "/", "9", "/", "9", "/", "1", "R", "6", "K", " ", "b", " ", "P", " ", "1">> }

GameInit ==
  \E a \in {applySFEN(DEFAULT_SFEN, 1)} :
      /\ cells = a.cells
      /\ myKomadai = a.myKomadai
      /\ opponentKomadai = a.opponentKomadai
      /\ currentTurn = a.currentTurn
      /\ moveNumber = a.moveNumber
      /\ emitted = toSFEN(a.cells, a.currentTurn, a.myKomadai, a.opponentKomadai,
                          a.moveNumber)
      /\ syncEnabled = FALSE
      /\ syncTimer = FALSE
      /\ lastSyncedSFEN = <<>>
      /\ syncError = ""
      /\ inflight = 0
      /\ q = NoQuery
      /\ objects = <<>>
      /\ arrays = <<>>
      /\ render = NoRender
      /\ engineQueue = NewEngineQueue
      /\ usiEngine = NewUsiEngine
      /\ geminiService = NewGeminiService
      /\ text = <<>>
      /\ decoded = parseError("")
      /\ decodedMoveNumber = NoNumber
      /\ encoded = <<>>
      /\ redecoded = parseError("")

\* the syncEnabled watcher with next = TRUE: startSync, whose first syncOnce
\* issues a poll
EnableSync ==
  /\ ~syncEnabled
  /\ inflight < MaxInflight
  /\ syncEnabled' = TRUE
  /\ IF syncTimer
     THEN UNCHANGED <<syncError, inflight, syncTimer>>
     ELSE /\ syncError' = ""
          /\ inflight' = inflight + 1
          /\ syncTimer' = TRUE
  /\ UNCHANGED <<cells, myKomadai, opponentKomadai, currentTurn, moveNumber, emitted,
                 lastSyncedSFEN, q, codecVars, heapVars, render, asyncVars>>

\* the syncEnabled watcher with next = FALSE: stopSync
DisableSync ==
  /\ syncEnabled
  /\ syncEnabled' = FALSE
  /\ IF ~syncTimer
     THEN UNCHANGED <<syncError, syncTimer>>
     ELSE /\ syncTimer' = FALSE
          /\ syncError' = ""
  /\ UNCHANGED <<cells, myKomadai, opponentKomadai, currentTurn, moveNumber, emitted,
                 lastSyncedSFEN, inflight, q, codecVars, heapVars, render, asyncVars>>

\* the interval callback: syncOnce issues a poll
SyncTick ==
  /\ syncTimer
  /\ inflight < MaxInflight
  /\ inflight' = inflight + 1
  /\ UNCHANGED <<cells, myKomadai, opponentKomadai, currentTurn, moveNumber, emitted,
                 syncEnabled, syncTimer, lastSyncedSFEN, syncError, q, codecVars, heapVars, render, asyncVars>>

\* syncOnce after the fetch failed or answered with a non-ok status
SyncFailed ==
  /\ inflight > 0
  /\ inflight' = inflight - 1
  /\ syncError' = "Sync failed"
  /\ UNCHANGED <<cells, myKomadai, opponentKomadai, currentTurn, moveNumber, emitted,
                 syncEnabled, syncTimer, lastSyncedSFEN, q, codecVars, heapVars, render, asyncVars>>

\* syncOnce after a response with no state, or with the text already applied
SyncNothingNew(sfen) ==
  /\ inflight > 0
  /\ sfen = <<>> \/ sfen = lastSyncedSFEN
  /\ inflight' = inflight - 1
  /\ UNCHANGED <<cells, myKomadai, opponentKomadai, currentTurn, moveNumber, emitted,
                 syncEnabled, syncTimer, lastSyncedSFEN, syncError, q, codecVars, heapVars, render, asyncVars>>

\* syncOnce after a response with a new text: applySFEN, the move number
\* derived from the ply when the text has none (or 0), the emit
SyncResponse(sfen, ply) ==
  /\ inflight > 0
  /\ sfen # <<>> /\ sfen # lastSyncedSFEN
  /\ inflight' = inflight - 1
  /\ lastSyncedSFEN' = sfen
  /\ \E a \in {applySFEN(sfen, moveNumber)},
        mn \in {extractMoveNumberFromSFEN(sfen)} :
       LET newMoveNumber == IF mn = NoNumber \/ mn = 0 THEN ply + 1 ELSE a.moveNumber
       IN  IF ~a.ok
           THEN /\ syncError' = "Sync failed"
                /\ UNCHANGED <<cells, myKomadai, opponentKomadai, currentTurn,
                               moveNumber, emitted>>
           ELSE /\ cells' = a.cells
                /\ myKomadai' = a.myKomadai
                /\ opponentKomadai' = a.opponentKomadai
                /\ currentTurn' = a.currentTurn
                /\ moveNumber' = newMoveNumber
                /\ emitted' = toSFEN(a.cells, a.currentTurn, a.myKomadai,
                                     a.opponentKomadai, newMoveNumber)
                /\ syncError' = ""
  /\ UNCHANGED <<syncEnabled, syncTimer, q, codecVars, heapVars, render, asyncVars>>

\* handlePieceMove with executeMove: the capture goes to the mover's hand,
\* the piece is moved as it is, the move number counts up, the text is emitted
handlePieceMove(from, to) ==
  /\ ~syncEnabled
  /\ cells[from] # NoPiece
  /\ ~(cells[to] # NoPiece /\ cells[to].owner = cells[from].owner)
  /\ to \in calculateLegalMovesOnBoard(cells[from], from, cells)
  /\ LET source == cells[from]
         target == cells[to]
         newMy == IF target # NoPiece /\ source.owner = "self"
                  THEN capturePiece(myKomadai, target) ELSE myKomadai
         newOpp == IF target # NoPiece /\ source.owner = "opponent"
                   THEN capturePiece(opponentKomadai, target) ELSE opponentKomadai
         newCells == [cells EXCEPT ![from] = NoPiece, ![to] = source]
     IN  /\ myKomadai' = newMy
         /\ opponentKomadai' = newOpp
         /\ cells' = newCells
         /\ moveNumber' = moveNumber + 1
         /\ emitted' = toSFEN(newCells, currentTurn, newMy, newOpp, moveNumber + 1)
  /\ UNCHANGED <<currentTurn, syncEnabled, syncTimer, lastSyncedSFEN, syncError,
                 inflight, q, codecVars, heapVars, render, asyncVars>>

\* handlePieceDrop: legality is asked without the hands
handlePieceDrop(pieceType, owner, to) ==
  /\ ~syncEnabled
  /\ cells[to] = NoPiece
  /\ hasInKomadai(IF owner = "self" THEN myKomadai ELSE opponentKomadai, pieceType)
  /\ to \in calculateLegalDrops(pieceType, owner, cells, NoHands)
  /\ LET newMy == IF owner = "self" THEN removeFromKomadai(myKomadai, pieceType)
                  ELSE myKomadai
         newOpp == IF owner = "opponent"
                   THEN removeFromKomadai(opponentKomadai, pieceType)
                   ELSE opponentKomadai
         newCells == [cells EXCEPT ![to] = create(pieceType, owner)]
     IN  /\ myKomadai' = newMy
         /\ opponentKomadai' = newOpp
         /\ cells' = newCells
         /\ moveNumber' = moveNumber + 1
         /\ emitted' = toSFEN(newCells, currentTurn, newMy, newOpp, moveNumber + 1)
  /\ UNCHANGED <<currentTurn, syncEnabled, syncTimer, lastSyncedSFEN, syncError,
                 inflight, q, codecVars, heapVars, render, asyncVars>>

Next ==
  \/ EnableSync
  \/ DisableSync
  \/ SyncTick
  \/ SyncFailed
  \/ \E sfen \in SyncTexts \cup {<<>>} : SyncNothingNew(sfen)
  \/ \E sfen \in SyncTexts, ply \in SyncPlies : SyncResponse(sfen, ply)
  \/ \E from \in UserCells, to \in UserCells :
       moveNumber < MaxMoveNumber /\ handlePieceMove(from, to)
  \/ \E pieceType \in PieceType, owner \in PlayerOwner, to \in UserCells :
       moveNumber < MaxMoveNumber /\ handlePieceDrop(pieceType, owner, to)

Spec == GameInit /\ [][Next]_vars

(***************************************************************************)
(* Local play from the initial position: moves and drops only, no sync     *)
(***************************************************************************)
\* local moves and drops are taken while moveNumber is below this
MaxPlayMoves == 6

\* the cells the user drags from and drops on in local play
PlayCells == {1, 16, 18, 24, 37, 45, 47, 54, 56, 64, 73}

PlayNext ==
  \/ \E from \in PlayCells, to \in PlayCells :
       moveNumber < MaxPlayMoves /\ handlePieceMove(from, to)
  \/ \E pieceType \in PieceType, owner \in PlayerOwner, to \in PlayCells :
       moveNumber < MaxPlayMoves /\ handlePieceDrop(pieceType, owner, to)

PlaySpec == GameInit /\ [][PlayNext]_vars

(***************************************************************************)
(* The engine request queue (YaneuraOuEngineQueue) over YaneuraOuEngine.   *)
(* One action is one browser task: the handler and every promise           *)
(* continuation that runs before the next task.                            *)
(***************************************************************************)
\* the position texts a client asks to analyse
AnalyzeTexts == {<<" ">>, DEFAULT_SFEN}

\* item.reject(error)
rejectItem(st, id) ==
  [st EXCEPT !.outcome[id] = IF @ = "pending" THEN "rejected" ELSE @,
             !.settles[id] = @ + 1]

\* item.resolve(result)
resolveItem(st, id) ==
  [st EXCEPT !.outcome[id] = IF @ = "pending" THEN "resolved" ELSE @,
             !.settles[id] = @ + 1]

\* post(command) on an engine with an instance: the command reaches the
\* engine process, which starts a search on 'go'
post(st, command, id) ==
  [st EXCEPT !.posted = Append(@, [cmd |-> command, id |-> id]),
             !.searching = IF command = "go" THEN TRUE ELSE @]

\* analyze after 'await this.init()': threw is TRUE when it throws before it
\* awaits the bestmove line; the finally block has then reset analyzing
analyzeAfterInit(st, id) ==
  IF trim(st.sfen[id]) = <<>>
  THEN [threw |-> TRUE, st |-> st]
  ELSE LET stopped == IF st.analyzing /\ ~st.engineDisposed
                      THEN post(st, "stop", id) ELSE st
           marked == [stopped EXCEPT !.analyzing = TRUE]
       IN  IF marked.engineDisposed
           THEN [threw |-> TRUE, st |-> [marked EXCEPT !.analyzing = FALSE]]
           ELSE [threw |-> FALSE,
                 st |-> [post(post(marked, "position", id), "go", id)
                           EXCEPT !.calls[id] = "bestmove"]]

\* engine.analyze(params) up to its first pending await: threw is TRUE when
\* the returned promise is already rejected
analyze(st, id) ==
  IF st.engineDisposed THEN [threw |-> TRUE, st |-> st]
  ELSE IF st.initPromise = "resolved" THEN analyzeAfterInit(st, id)
  ELSE [threw |-> FALSE,
        st |-> [st EXCEPT !.initPromise = "pending", !.calls[id] = "init"]]

RECURSIVE processQueue(_)
RECURSIVE startProcessing(_)

\* startProcessing without the test of the processing flag
startProcessing_noFlag(st) == processQueue([st EXCEPT !.processing = TRUE])

startProcessing(st) ==
  IF st.processing THEN st
  ELSE processQueue([st EXCEPT !.processing = TRUE])

\* the while loop of processQueue from its test, up to the await of
\* engine.analyze or through the finally block
processQueue(st) ==
  IF st.queue = <<>>
  THEN LET done == [st EXCEPT !.processing = FALSE]
       IN  IF done.queue # <<>> THEN startProcessing(done) ELSE done
  ELSE LET id == Head(st.queue)
           shifted == [st EXCEPT !.queue = Tail(@)]
       IN  IF shifted.disposed THEN processQueue(rejectItem(shifted, id))
           ELSE LET a == analyze(shifted, id)
                IN  IF a.threw THEN processQueue(rejectItem(a.st, id))
                    ELSE a.st

\* processQueue after the await of engine.analyze(item.params) has settled
resumeLoop(st, id, ok) ==
  LET returned == [st EXCEPT !.calls[id] = "none"]
  IN  processQueue(IF ok THEN resolveItem(returned, id) ELSE rejectItem(returned, id))

RECURSIVE rejectAll(_, _)
rejectAll(st, ids) ==
  IF ids = <<>> THEN st ELSE rejectAll(rejectItem(st, Head(ids)), Tail(ids))

\* rejectPending that empties the queue without rejecting the items
rejectPending_drop(st) == [st EXCEPT !.queue = <<>>]

rejectPending(st) == rejectAll([st EXCEPT !.queue = <<>>], st.queue)

\* the analyze calls waiting at the given await
callsAt(st, pc) == {r \in Requests : st.calls[r] = pc}

\* the analyze calls issued by the queue and not settled yet
unsettledCalls(st) == {r \in Requests : st.calls[r] # "none"}

\* analyze continuing after init resolved
afterInit(st, id) ==
  LET a == analyzeAfterInit(st, id)
  IN  IF a.threw THEN resumeLoop(a.st, id, FALSE) ELSE a.st

\* analyze whose await of init threw: there is no finally block yet
afterInitFailed(st, id) == resumeLoop(st, id, FALSE)

\* analyze after the bestmove line resolved bestmovePromise
afterBestmove(st, id) == resumeLoop([st EXCEPT !.analyzing = FALSE], id, TRUE)

\* analyze after the analysis timeout rejected bestmovePromise
afterTimeout(st, id) == resumeLoop([st EXCEPT !.analyzing = FALSE], id, FALSE)

\* the continuations of the waiting calls, in the order the calls were made
RECURSIVE resumeInitWaiters(_, _, _)
resumeInitWaiters(st, ids, ok) ==
  IF ids = {} THEN st
  ELSE LET id == CHOOSE x \in ids : \A y \in ids : x <= y
       IN  resumeInitWaiters(IF ok THEN afterInit(st, id) ELSE afterInitFailed(st, id),
                             ids \ {id}, ok)

RECURSIVE resumeBestmoveWaiters(_, _)
resumeBestmoveWaiters(st, ids) ==
  IF ids = {} THEN st
  ELSE LET id == CHOOSE x \in ids : \A y \in ids : x <= y
       IN  resumeBestmoveWaiters(afterBestmove(st, id), ids \ {id})

\* every variable but the three of the asynchronous collaborators at rest
RestIdle ==
  /\ cells = EmptyBoard
  /\ myKomadai = <<>>
  /\ opponentKomadai = <<>>
  /\ currentTurn = "self"
  /\ moveNumber = 1
  /\ emitted = <<>>
  /\ syncEnabled = FALSE
  /\ syncTimer = FALSE
  /\ lastSyncedSFEN = <<>>
  /\ syncError = ""
  /\ inflight = 0
  /\ q = NoQuery
  /\ text = <<>>
  /\ decoded = parseError("")
  /\ decodedMoveNumber = NoNumber
  /\ encoded = <<>>
  /\ redecoded = parseError("")
  /\ objects = <<>>
  /\ arrays = <<>>
  /\ render = NoRender

QueueInit ==
  /\ RestIdle
  /\ engineQueue = NewEngineQueue
  /\ usiEngine = NewUsiEngine
  /\ geminiService = NewGeminiService

\* enqueueAnalysis(params) with startProcessing
EnqueueAnalysis(sfen) ==
  /\ \E id \in Requests :
       /\ engineQueue.outcome[id] = "none"
       /\ \A r \in Requests : r < id => engineQueue.outcome[r] # "none"
       /\ IF engineQueue.disposed
          THEN engineQueue' = [engineQueue EXCEPT !.sfen[id] = sfen,
                                                  !.outcome[id] = "rejected",
                                                  !.settles[id] = @ + 1]
          ELSE engineQueue' =
                 startProcessing(
                   [engineQueue EXCEPT
                      !.sfen[id] = sfen,
                      !.outcome[id] = "pending",
                      !.queue = Append(@, id),
                      !.arrivedBusy =
                        IF callsAt(engineQueue, "bestmove") # {}
                        THEN @ \cup {id} ELSE @])
  /\ UNCHANGED <<gameVars, q, codecVars, heapVars, render, usiEngine, geminiService>>

\* the promise of init resolves: the handshake is done
InitResolves ==
  /\ engineQueue.initPromise = "pending"
  /\ ~engineQueue.engineDisposed
  /\ engineQueue' = resumeInitWaiters([engineQueue EXCEPT !.initPromise = "resolved"],
                                      callsAt(engineQueue, "init"), TRUE)
  /\ UNCHANGED <<gameVars, q, codecVars, heapVars, render, usiEngine, geminiService>>

\* the promise of init rejects (a load error or a handshake timeout), or,
\* on a disposed engine, resolves into an analyze whose first post throws
InitRejects ==
  /\ callsAt(engineQueue, "init") # {}
  /\ engineQueue' = resumeInitWaiters([engineQueue EXCEPT !.initPromise = "null"],
                                      callsAt(engineQueue, "init"), FALSE)
  /\ UNCHANGED <<gameVars, q, codecVars, heapVars, render, usiEngine, geminiService>>

\* the engine process ends its search with a 'bestmove' line: every
\* bestmove listener resolves its promise
EngineBestmove ==
  /\ engineQueue.searching
  /\ ~engineQueue.engineDisposed
  /\ engineQueue' = resumeBestmoveWaiters([engineQueue EXCEPT !.searching = FALSE],
                                          callsAt(engineQueue, "bestmove"))
  /\ UNCHANGED <<gameVars, q, codecVars, heapVars, render, usiEngine, geminiService>>

\* the timer of analysisTimeoutMs fires before a bestmove line came
AnalysisTimeout(id) ==
  /\ engineQueue.calls[id] = "bestmove"
  /\ engineQueue' = afterTimeout(engineQueue, id)
  /\ UNCHANGED <<gameVars, q, codecVars, heapVars, render, usiEngine, geminiService>>

\* engine.dispose(): quit, terminate, the listeners cleared
disposeEngine(st) ==
  IF st.engineDisposed THEN st
  ELSE [st EXCEPT !.engineDisposed = TRUE,
                  !.posted = Append(@, [cmd |-> "quit", id |-> 0]),
                  !.initPromise = "null",
                  !.searching = FALSE]

\* dispose() of the queue, up to the end of engine.dispose()
Dispose ==
  /\ ~engineQueue.disposed
  /\ engineQueue' = disposeEngine(rejectPending([engineQueue EXCEPT !.disposed = TRUE]))
  /\ UNCHANGED <<gameVars, q, codecVars, heapVars, render, usiEngine, geminiService>>

QueueNext ==
  \/ \E sfen \in AnalyzeTexts : EnqueueAnalysis(sfen)
  \/ InitResolves
  \/ InitRejects
  \/ EngineBestmove
  \/ \E id \in Requests : AnalysisTimeout(id)
  \/ Dispose

QueueSpec == QueueInit /\ [][QueueNext]_vars

\* timers fire, and init settles: each of its awaits is a script load, which
\* ends in load or error, or a wait under the handshake timeout
QueueFairSpec ==
  /\ QueueSpec
  /\ WF_vars(InitResolves \/ InitRejects)
  /\ WF_vars(\E id \in Requests : AnalysisTimeout(id))

(***************************************************************************)
(* The LLM request pipeline (the GeminiService component)                  *)
(***************************************************************************)
\* the analyses the component is given, one after the other
MaxCoachRequests == 3

GeminiInit ==
  /\ RestIdle
  /\ engineQueue = NewEngineQueue
  /\ usiEngine = NewUsiEngine
  /\ geminiService = NewGeminiService

\* tryRequest up to its await: no request without an analysis that has a
\* bestmove
tryRequest(st) ==
  IF st.analysis = 0 \/ ~st.hasBestmove THEN st
  ELSE [st EXCEPT !.requested = @ + 1,
                  !.position = Append(@, st.analysis),
                  !.pending = @ \cup {st.requested + 1},
                  !.loading = TRUE,
                  !.lastError = ""]

\* the analysis prop changes to the analysis of the next position: the
\* safeAnalysis watcher
AnalysisChanged(hasBestmove) ==
  /\ geminiService.requested < MaxCoachRequests
  /\ geminiService.analysis < MaxCoachRequests
  /\ geminiService' = tryRequest([geminiService EXCEPT !.analysis = @ + 1,
                                                       !.hasBestmove = hasBestmove])
  /\ UNCHANGED <<gameVars, q, codecVars, heapVars, render, engineQueue, usiEngine>>

\* the coachId watcher and the settings watcher
CoachOrSettingsChanged ==
  /\ geminiService.requested < MaxCoachRequests
  /\ geminiService' = tryRequest(geminiService)
  /\ UNCHANGED <<gameVars, q, codecVars, heapVars, render, engineQueue, usiEngine>>

\* tryRequest after requestGeminiCoach resolved for request k
CoachResponds(k) ==
  /\ k \in geminiService.pending
  /\ geminiService' = [geminiService EXCEPT !.pending = @ \ {k},
                                            !.lastResult = k,
                                            !.results = Append(@, k),
                                            !.loading = FALSE]
  /\ UNCHANGED <<gameVars, q, codecVars, heapVars, render, engineQueue, usiEngine>>

\* tryRequest after requestGeminiCoach rejected for request k
CoachFails(k) ==
  /\ k \in geminiService.pending
  /\ geminiService' = [geminiService EXCEPT !.pending = @ \ {k},
                                            !.lastError = "error",
                                            !.loading = FALSE]
  /\ UNCHANGED <<gameVars, q, codecVars, heapVars, render, engineQueue, usiEngine>>

GeminiNext ==
  \/ \E hasBestmove \in BOOLEAN : AnalysisChanged(hasBestmove)
  \/ CoachOrSettingsChanged
  \/ \E k \in 1..MaxCoachRequests : CoachResponds(k)
  \/ \E k \in 1..MaxCoachRequests : CoachFails(k)

GeminiSpec == GeminiInit /\ [][GeminiNext]_vars

(***************************************************************************)
(* The USI handshake of YaneuraOuEngine: emitLine, waitForLine, post and   *)
(* postAndWait under init and applyParamsReactive, and the engine process  *)
(***************************************************************************)
\* recentLinesCap
recentLinesCap == 400

\* settings changes that queue an applyParamsReactive round
MaxApplies == 2

\* lines the engine process writes unasked
MaxInfoLines == 1

lineHasToken(line, token) == \E k \in 1..Len(line) : line[k] = token

\* the current wait, or none
currentWait(st) ==
  IF st.waits = <<>> THEN [state |-> "none", token |-> "", postedAt |-> 0, resolvedBy |-> 0]
  ELSE st.waits[Len(st.waits)]

\* emitLine(line): the buffer, its cap, then the listeners; the listener of
\* a pending wait resolves it on a line with its token
emitLine(st, line) ==
  LET pushed == Append(st.recentLines, line)
      kept == IF Len(pushed) > recentLinesCap
              THEN SubSeq(pushed, Len(pushed) - recentLinesCap + 1, Len(pushed))
              ELSE pushed
      w == currentWait(st)
  IN  [st EXCEPT !.recentLines = kept,
                 !.emittedLines = @ + 1,
                 !.waits = IF w.state = "pending" /\ lineHasToken(line, w.token)
                           THEN [@ EXCEPT ![Len(@)].state = "resolved",
                                          ![Len(@)].resolvedBy = st.emittedLines + 1]
                           ELSE @]

\* waitForLine(predicate, timeoutMs) for the predicate lineHasToken(l, token):
\* the newest buffered line with the token resolves it at once
waitForLine(st, token) ==
  LET hits == {k \in 1..Len(st.recentLines) : lineHasToken(st.recentLines[k], token)}
  IN  IF hits # {}
      THEN LET idx == CHOOSE k \in hits : \A j \in hits : j <= k
           IN  [st EXCEPT !.waits =
                  Append(@, [state |-> "resolved", token |-> token, postedAt |-> 0,
                             resolvedBy |-> st.emittedLines - (Len(st.recentLines) - idx)])]
      ELSE [st EXCEPT !.waits = Append(@, [state |-> "pending", token |-> token,
                                           postedAt |-> 0, resolvedBy |-> 0])]

\* the engine process reads a command: 'usi' is answered with the id line
\* and 'usiok', 'isready' with 'readyok'
engineReads(st, command) ==
  [st EXCEPT !.outbox = CASE command = "usi" -> @ \o <<<<"id", "name", "YaneuraOu">>, <<"usiok">>>>
                          [] command = "isready" -> Append(@, <<"readyok">>)
                          [] OTHER -> @]

\* post(command): the echo line, then the message to the instance
usiPost(st, command) == engineReads(emitLine(st, <<">", command>>), command)

\* postAndWait(command, token): the wait is set up, then the command posted
postAndWait(st, command, token) ==
  LET waiting == waitForLine(st, token)
      posted == usiPost(waiting, command)
  IN  [posted EXCEPT !.waits[Len(posted.waits)].postedAt = posted.emittedLines]

\* init and the function of applyParamsReactive from the await they stand
\* at, through every await that is already resolved
RECURSIVE runScript(_)
runScript(st) ==
  IF currentWait(st).state = "pending" \/ currentWait(st).state = "rejected" THEN st
  ELSE CASE st.script = "start" ->
              runScript([postAndWait(st, "usi", "usiok") EXCEPT !.script = "usi"])
         [] st.script = "usi" ->
              runScript([postAndWait(st, "isready", "readyok") EXCEPT !.script = "isready"])
         [] st.script = "isready" ->
              runScript([st EXCEPT !.applies = @ + 1, !.script = "applyQueue"])
         [] st.script = "applyQueue" ->
              IF st.applies = 0 THEN [st EXCEPT !.script = "idle", !.initDone = TRUE]
              ELSE runScript([postAndWait(usiPost(st, "setoption"), "isready", "readyok")
                                EXCEPT !.script = "apply1", !.applies = @ - 1])
         [] st.script = "apply1" ->
              runScript([postAndWait(usiPost(st, "usinewgame"), "isready", "readyok")
                           EXCEPT !.script = "apply2"])
         [] st.script = "apply2" ->
              runScript([st EXCEPT !.script = "applyQueue"])
         [] OTHER -> st

UsiInit ==
  /\ RestIdle
  /\ engineQueue = NewEngineQueue
  /\ usiEngine = NewUsiEngine
  /\ geminiService = NewGeminiService

\* init(), from the attached instance to its first pending await
StartInit ==
  /\ usiEngine.script = "idle"
  /\ ~usiEngine.initDone
  /\ usiEngine.waits = <<>>
  /\ usiEngine' = runScript([usiEngine EXCEPT !.script = "start"])
  /\ UNCHANGED <<gameVars, q, codecVars, heapVars, render, engineQueue, geminiService>>

\* the settings subscription, bound once init has passed bindSettings:
\* applyParamsReactive with changed parameters
SettingsChanged ==
  /\ usiEngine.script \in {"isready", "applyQueue", "apply1", "apply2", "idle"}
  /\ usiEngine.script = "idle" => usiEngine.initDone
  /\ usiEngine.changes < MaxApplies
  /\ currentWait(usiEngine).state # "rejected"
  /\ usiEngine' = IF usiEngine.script = "idle"
                  THEN runScript([usiEngine EXCEPT !.applies = @ + 1,
                                                   !.changes = @ + 1,
                                                   !.script = "applyQueue"])
                  ELSE [usiEngine EXCEPT !.applies = @ + 1, !.changes = @ + 1]
  /\ UNCHANGED <<gameVars, q, codecVars, heapVars, render, engineQueue, geminiService>>

\* the engine process writes its next line: attachOutput passes it to
\* emitLine, and a wait that it resolves lets the script run on
EngineWrites ==
  /\ usiEngine.outbox # <<>>
  /\ usiEngine' = runScript(emitLine([usiEngine EXCEPT !.outbox = Tail(@)],
                                     Head(usiEngine.outbox)))
  /\ UNCHANGED <<gameVars, q, codecVars, heapVars, render, engineQueue, geminiService>>

\* the engine process writes a line nobody asked for
EngineWritesInfo ==
  /\ Cardinality({k \in 1..Len(usiEngine.recentLines) :
                    usiEngine.recentLines[k] = <<"info", "string">>}) < MaxInfoLines
  /\ usiEngine' = runScript(emitLine(usiEngine, <<"info", "string">>))
  /\ UNCHANGED <<gameVars, q, codecVars, heapVars, render, engineQueue, geminiService>>

\* the timer of a pending wait fires: the wait rejects, and init or the
\* apply function ends with it
WaitTimeout ==
  /\ currentWait(usiEngine).state = "pending"
  /\ usiEngine' = [usiEngine EXCEPT !.waits[Len(usiEngine.waits)].state = "rejected"]
  /\ UNCHANGED <<gameVars, q, codecVars, heapVars, render, engineQueue, geminiService>>

UsiNext ==
  \/ StartInit
  \/ SettingsChanged
  \/ EngineWrites
  \/ EngineWritesInfo
  \/ WaitTimeout

UsiSpec == UsiInit /\ [][UsiNext]_vars

(***************************************************************************)
(* The codec on a text: the controller decodes it, exports the position,   *)
(* and a consumer of the exported text decodes that.                       *)
(***************************************************************************)
\* decoded / redecoded before the decoding has run
Pending == parseError("pending")

\* board fields: well-formed ones, and ones with a wrong rank count, a wrong
\* rank width, an unknown letter, a promoted King or Gold, a stray marker
BoardFields ==
  { <<"9", "/", "9", "/", "9", "/", "9", "/", "9", "/", "9", "/", "9", "/", "9", "/", "9">>,
    <<"9", "/", "9", "/", "9", "/", "9", "/", "9", "/", "9", "/", "9", "/", "9", "/", "4", "K", "4">>,
    <<"9", "/", "9", "/", "9", "/", "9", "/", "9", "/", "9", "/", "9", "/", "9", "/", "7", "+", "p">>,
    <<"l", "n", "s", "g", "k", "g", "s", "n", "l", "/", "9", "/", "9", "/", "9", "/", "9", "/", "9", "/", "9", "/", "9", "/", "9">>,
    <<"l", "n", "s", "g", "k", "g", "s", "n", "l", "/", "9", "/", "9", "/", "9", "/", "9", "/", "9", "/", "9", "/", "9", "/", "4", "K", "4">>,
    <<"l", "n", "s", "g", "k", "g", "s", "n", "l", "/", "9", "/", "9", "/", "9", "/", "9", "/", "9", "/", "9", "/", "9", "/", "7", "+", "p">>,
    <<"4", "k", "4", "/", "9", "/", "9", "/", "9", "/", "9", "/", "9", "/", "9", "/", "9", "/", "9">>,
    <<"4", "k", "4", "/", "9", "/", "9", "/", "9", "/", "9", "/", "9", "/", "9", "/", "9", "/", "4", "K", "4">>,
    <<"4", "k", "4", "/", "9", "/", "9", "/", "9", "/", "9", "/", "9", "/", "9", "/", "9", "/", "7", "+", "p">>,
    <<"+", "P", "+", "l", "3", "G", "2", "k", "/", "9", "/", "9", "/", "9", "/", "9", "/", "9", "/", "9", "/", "9", "/", "9">>,
    <<"+", "P", "+", "l", "3", "G", "2", "k", "/", "9", "/", "9", "/", "9", "/", "9", "/", "9", "/", "9", "/", "9", "/", "4", "K", "4">>,
    <<"+", "P", "+", "l", "3", "G", "2", "k", "/", "9", "/", "9", "/", "9", "/", "9", "/", "9", "/", "9", "/", "9", "/", "7", "+", "p">>,
    <<"+", "R", "+", "B", "+", "S", "+", "N", "+", "L", "+", "P", "3", "/", "9", "/", "9", "/", "9", "/", "9", "/", "9", "/", "9", "/", "9", "/", "9">>,
    <<"+", "R", "+", "B", "+", "S", "+", "N", "+", "L", "+", "P", "3", "/", "9", "/", "9", "/", "9", "/", "9", "/", "9", "/", "9", "/", "9", "/", "4", "K", "4">>,
    <<"+", "R", "+", "B", "+", "S", "+", "N", "+", "L", "+", "P", "3", "/", "9", "/", "9", "/", "9", "/", "9", "/", "9", "/", "9", "/", "9", "/", "7", "+", "p">>,
    <<"8", "/", "9", "/", "9", "/", "9", "/", "9", "/", "9", "/", "9", "/", "9", "/", "9">>,
    <<"8", "/", "9", "/", "9", "/", "9", "/", "9", "/", "9", "/", "9", "/", "9", "/", "4", "K", "4">>,
    <<"8", "/", "9", "/", "9", "/", "9", "/", "9", "/", "9", "/", "9", "/", "9", "/", "7", "+", "p">>,
    <<"9", "1", "/", "9", "/", "9", "/", "9", "/", "9", "/", "9", "/", "9", "/", "9", "/", "9">>,
    <<"9", "1", "/", "9", "/", "9", "/", "9", "/", "9", "/", "9", "/", "9", "/", "9", "/", "4", "K", "4">>,
    <<"9", "1", "/", "9", "/", "9", "/", "9", "/", "9", "/", "9", "/", "9", "/", "9", "/", "7", "+", "p">>,
    <<"4", "x", "4", "/", "9", "/", "9", "/", "9", "/", "9", "/", "9", "/", "9", "/", "9", "/", "9">>,
    <<"4", "x", "4", "/", "9", "/", "9", "/", "9", "/", "9", "/", "9", "/", "9", "/", "9", "/", "4", "K", "4">>,
    <<"4", "x", "4", "/", "9", "/", "9", "/", "9", "/", "9", "/", "9", "/", "9", "/", "9", "/", "7", "+", "p">>,
    <<"+", "K", "8", "/", "9", "/", "9", "/", "9", "/", "9", "/", "9", "/", "9", "/", "9", "/", "9">>,
    <<"+", "K", "8", "/", "9", "/", "9", "/", "9", "/", "9", "/", "9", "/", "9", "/", "9", "/", "4", "K", "4">>,
    <<"+", "K", "8", "/", "9", "/", "9", "/", "9", "/", "9", "/", "9", "/", "9", "/", "9", "/", "7", "+", "p">>,
    <<"4", "+", "g", "4", "/", "9", "/", "9", "/", "9", "/", "9", "/", "9", "/", "9", "/", "9", "/", "9">>,
    <<"4", "+", "g", "4", "/", "9", "/", "9", "/", "9", "/", "9", "/", "9", "/", "9", "/", "9", "/", "4", "K", "4">>,
    <<"4", "+", "g", "4", "/", "9", "/", "9", "/", "9", "/", "9", "/", "9", "/", "9", "/", "9", "/", "7", "+", "p">>,
    <<"0", "K", "8", "/", "9", "/", "9", "/", "9", "/", "9", "/", "9", "/", "9", "/", "9", "/", "9">>,
    <<"0", "K", "8", "/", "9", "/", "9", "/", "9", "/", "9", "/", "9", "/", "9", "/", "9", "/", "4", "K", "4">>,
    <<"0", "K", "8", "/", "9", "/", "9", "/", "9", "/", "9", "/", "9", "/", "9", "/", "9", "/", "7", "+", "p">>,
    <<"8", "+", "/", "9", "/", "9", "/", "9", "/", "9", "/", "9", "/", "9", "/", "9", "/", "9">>,
    <<"8", "+", "/", "9", "/", "9", "/", "9", "/", "9", "/", "9", "/", "9", "/", "9", "/", "4", "K", "4">>,
    <<"8", "+", "/", "9", "/", "9", "/", "9", "/", "9", "/", "9", "/", "9", "/", "9", "/", "7", "+", "p">>,
    <<"9", "/", "9", "/", "9", "/", "9", "/", "9", "/", "9", "/", "9", "/", "9">>,
    <<"9", "/", "9", "/", "9", "/", "9", "/", "9", "/", "9", "/", "9", "/", "9", "/", "9", "/", "9">> }

\* turn fields
TurnFields ==
  { <<"b">>,
    <<"w">>,
    <<"x">>,
    <<"B">> }

\* hands fields
HandFields ==
  { <<"-">>,
    <<"P">>,
    <<"2", "P">>,
    <<"P", "p">>,
    <<"P", "P">>,
    <<"2", "R", "3", "p">>,
    <<"R", "B", "G", "S", "N", "L", "P", "r", "b", "g", "s", "n", "l", "p">>,
    <<"1", "0", "p">>,
    <<"K">>,
    <<"2", "k">>,
    <<"+", "P">>,
    <<"0", "P">>,
    <<"P", "2">>,
    <<"x">>,
    <<"2", "+", "P">>,
    <<"0", "0", "p">> }

\* what follows the hands field: nothing, or a move number
TailFields ==
  { <<>>,
    <<" ", "1">>,
    <<" ", " ", "1", "2", " ">>,
    <<" ", "0">> }

Texts ==
  {b \o <<" ">> \o t \o <<" ">> \o h \o m :
     b \in BoardFields, t \in TurnFields, h \in HandFields, m \in TailFields}

CodecInit ==
  /\ text \in Texts
  /\ decoded = Pending
  /\ decodedMoveNumber = NoNumber
  /\ encoded = <<>>
  /\ redecoded = Pending
  /\ cells = EmptyBoard
  /\ myKomadai = <<>>
  /\ opponentKomadai = <<>>
  /\ currentTurn = "self"
  /\ moveNumber = 1
  /\ emitted = <<>>
  /\ syncEnabled = FALSE
  /\ syncTimer = FALSE
  /\ lastSyncedSFEN = <<>>
  /\ syncError = ""
  /\ inflight = 0
  /\ q = NoQuery
  /\ objects = <<>>
  /\ arrays = <<>>
  /\ render = NoRender
  /\ engineQueue = NewEngineQueue
  /\ usiEngine = NewUsiEngine
  /\ geminiService = NewGeminiService

\* applySFEN(text): the position is replaced unless parseSFEN throws
Decode ==
  /\ decoded = Pending
  /\ decoded' = parseSFEN(text)
  /\ \E a \in {applySFEN(text, moveNumber)} :
         IF a.ok
         THEN /\ cells' = a.cells
              /\ myKomadai' = a.myKomadai
              /\ opponentKomadai' = a.opponentKomadai
              /\ currentTurn' = a.currentTurn
              /\ moveNumber' = a.moveNumber
         ELSE UNCHANGED <<cells, myKomadai, opponentKomadai, currentTurn, moveNumber>>
  /\ UNCHANGED <<emitted, syncEnabled, syncTimer, lastSyncedSFEN, syncError, inflight,
                 q, text, decodedMoveNumber, encoded, redecoded, heapVars, render, asyncVars>>

\* exportSFEN of the decoded position
Encode ==
  /\ decoded # Pending /\ decoded.ok
  /\ encoded = <<>>
  /\ encoded' = toSFEN(cells, currentTurn, myKomadai, opponentKomadai, moveNumber)
  /\ UNCHANGED <<gameVars, q, text, decoded, decodedMoveNumber, redecoded, heapVars, render, asyncVars>>

\* the exported text decoded again
Redecode ==
  /\ encoded # <<>>
  /\ redecoded = Pending
  /\ redecoded' = parseSFEN(encoded)
  /\ decodedMoveNumber' = extractMoveNumberFromSFEN(encoded)
  /\ UNCHANGED <<gameVars, q, text, decoded, encoded, heapVars, render, asyncVars>>

CodecNext == Decode \/ Encode \/ Redecode

CodecSpec == CodecInit /\ [][CodecNext]_vars

(***************************************************************************)
(* Properties of the rules engine                                          *)
(***************************************************************************)
queryHand == IF q.owner = "self" THEN myKomadai ELSE opponentKomadai

\* C1: no destination returned by legalMoves leaves the mover's own King in
\* check: simulating the move and asking isInCheck for the mover gives false.
C1_LegalMovesKeepKingSafe ==
  q.op = "legalMoves" =>
    \A to \in q.moves : ~isInCheck(q.owner, simulateMove(cells, q.index, to))

\* a legal-moves answer from which a pseudo-legal destination was filtered out
C1_Witness ==
  /\ q.op = "legalMoves"
  /\ q.moves # {}
  /\ calculatePseudoLegalMovesOnBoard(cells[q.index], q.index, cells) \ q.moves # {}

\* C2: with the hands supplied, no cell returned for a Pawn drop is a
\* pawn-drop-mate: after the drop the opponent is not checkmated.
C2_NoPawnDropMate ==
  (q.op = "legalDrops" /\ q.kind = "Pawn" /\ q.hands) =>
    \A c \in q.moves :
      ~isCheckmate(opponentOwner(q.owner), simulateDrop(cells, c, "Pawn", q.owner),
                   handsArg(TRUE))

\* a Pawn-drop answer with hands, the opponent not yet in check, that left out
\* a cell only because the drop there mates
C2_Witness ==
  /\ q.op = "legalDrops" /\ q.kind = "Pawn" /\ q.hands
  /\ q.moves # {}
  /\ ~isInCheck(opponentOwner(q.owner), cells)
  /\ \E c \in calculateLegalDrops("Pawn", q.owner, cells, NoHands) \ q.moves :
       /\ isInCheck(opponentOwner(q.owner), simulateDrop(cells, c, "Pawn", q.owner))
       /\ \A i \in Cells :
            LET next == simulateDrop(cells, c, "Pawn", q.owner)
            IN  (next[i] # NoPiece /\ next[i].owner = opponentOwner(q.owner))
                  => calculateLegalMovesOnBoard(next[i], i, next) = {}

\* C6: isCheckmate is true exactly when the side is in check, none of its
\* pieces has a legal move and, with hands supplied, no kind it holds in hand
\* has a legal drop.
C6_CheckmateIff ==
  q.op = "isCheckmate" =>
    (q.flag <=>
       /\ isInCheck(q.owner, cells)
       /\ \A i \in Cells :
            (cells[i] # NoPiece /\ cells[i].owner = q.owner)
              => calculateLegalMovesOnBoard(cells[i], i, cells) = {}
       /\ q.hands =>
            \A k \in 1..Len(queryHand) :
              queryHand[k].count > 0
                => calculateLegalDrops(queryHand[k].type, q.owner, cells,
                                       handsArg(TRUE)) = {})

\* a checkmate found with the hands supplied, the mated side holding a piece
C6_Witness ==
  /\ q.op = "isCheckmate" /\ q.hands /\ q.flag
  /\ Len(queryHand) > 0

\* ShogiBoard.setCell(index, null)
removePiece(board, index) == [board EXCEPT ![index] = NoPiece]

\* self's King is in check from a Rook, the King's only legal move captures
\* that Rook, and no other piece of self has a legal move
C7_Scenario ==
  LET k == findKingIndex("self", cells)
  IN  /\ k # NoIndex
      /\ \A i \in Cells \ {k} : cells[i] = NoPiece \/ cells[i] # cells[k]
      /\ \E r \in Cells :
           /\ cells[r] # NoPiece
           /\ cells[r].owner = "opponent" /\ cells[r].type = "Rook"
           /\ k \in calculatePseudoLegalMovesOnBoard(cells[r], r, cells)
           /\ calculateLegalMovesOnBoard(cells[k], k, cells) = {r}
      /\ \A i \in Cells :
           (i # k /\ cells[i] # NoPiece /\ cells[i].owner = "self")
             => calculateLegalMovesOnBoard(cells[i], i, cells) = {}

\* C7 as stated: in the scenario isCheckmate('self') is false, and with the
\* capturing piece (the King) taken off the board it is true.
C7_Original ==
  (q.op = "isCheckmate" /\ q.owner = "self" /\ ~q.hands /\ C7_Scenario) =>
    /\ ~q.flag
    /\ isCheckmate("self", removePiece(cells, findKingIndex("self", cells)), NoHands)

\* C7 as amended: in the scenario isCheckmate('self') is false, and with the
\* capturing piece, self's only King, taken off the board it is false as
\* well: a side without a King is never in check.
C7_KingCapturesRook ==
  (q.op = "isCheckmate" /\ q.owner = "self" /\ ~q.hands /\ C7_Scenario) =>
    /\ ~q.flag
    /\ ~isCheckmate("self", removePiece(cells, findKingIndex("self", cells)), NoHands)

C7_Witness ==
  q.op = "isCheckmate" /\ q.owner = "self" /\ ~q.hands /\ C7_Scenario

\* the indices of a list of hanging pieces
hangingIndices(hanging) == {hanging[k].index : k \in 1..Len(hanging)}

\* C8: findHangingPieces returns exactly the non-King pieces of the owner
\* that some opposing piece can legally capture such that, after that
\* capture, the owner has no legal recapture on the capturing piece's square.
C8_HangingExactly ==
  q.op = "findHangingPieces" =>
    hangingIndices(q.hanging) =
      {i \in Cells :
         /\ cells[i] # NoPiece
         /\ cells[i].owner = q.owner
         /\ cells[i].type # "King"
         /\ \E a \in Cells :
              /\ cells[a] # NoPiece
              /\ cells[a].owner = opponentOwner(q.owner)
              /\ i \in calculateLegalMovesOnBoard(cells[a], a, cells)
              /\ LET next == simulateCapture(cells, a, i)
                 IN  ~\E d \in Cells \ {i} :
                        /\ next[d] # NoPiece
                        /\ next[d].owner = q.owner
                        /\ i \in calculateLegalMovesOnBoard(next[d], d, next)}

\* C9: every cell returned by legalDrops is empty; a Pawn or Lance is never
\* dropped on the owner's farthest rank, a Knight never on the two farthest.
C9_DropCells ==
  q.op = "legalDrops" =>
    \A c \in q.moves :
      /\ cells[c] = NoPiece
      /\ q.kind \in {"Pawn", "Lance"} =>
           (c \div 9) # (IF q.owner = "self" THEN 0 ELSE 8)
      /\ q.kind = "Knight" =>
           (c \div 9) \notin (IF q.owner = "self" THEN {0, 1} ELSE {7, 8})

\* a Knight-drop answer that is not empty
C9_Witness ==
  q.op = "legalDrops" /\ q.kind = "Knight" /\ q.moves # {}

\* files with a Pawn of the owner, by promotion state
pawnFiles(owner, promoted) ==
  {c % 9 : c \in {d \in Cells : cells[d] # NoPiece /\ cells[d].owner = owner
                                /\ cells[d].type = "Pawn"
                                /\ cells[d].promoted = promoted}}

\* C10: a Pawn is never dropped on a file holding an unpromoted Pawn of the
\* owner, whatever the rank; a promoted Pawn of the owner does not close its
\* file: there every empty cell off the farthest rank where the drop is
\* otherwise allowed is returned.
C10_TwoPawns ==
  (q.op = "legalDrops" /\ q.kind = "Pawn") =>
    /\ \A c \in q.moves : (c % 9) \notin pawnFiles(q.owner, FALSE)
    /\ \A c \in Cells :
         ( /\ (c % 9) \in pawnFiles(q.owner, TRUE) \ pawnFiles(q.owner, FALSE)
           /\ cells[c] = NoPiece
           /\ (c \div 9) # (IF q.owner = "self" THEN 0 ELSE 8)
           /\ ~isInCheck(q.owner, simulateDrop(cells, c, "Pawn", q.owner))
           /\ ~(q.hands /\ isCheckmate(opponentOwner(q.owner),
                                       simulateDrop(cells, c, "Pawn", q.owner),
                                       handsArg(TRUE))) )
         => c \in q.moves

\* a Pawn-drop answer on a board with an unpromoted Pawn of the owner on one
\* file and a promoted one on another, the latter file receiving a drop
C10_Witness ==
  /\ q.op = "legalDrops" /\ q.kind = "Pawn"
  /\ pawnFiles(q.owner, FALSE) # {}
  /\ \E c \in q.moves : (c % 9) \in pawnFiles(q.owner, TRUE)

\* C11: no cell returned by legalDrops, for any kind and owner, with or
\* without the hands, leaves the dropping side's own King in check.
C11_DropsKeepKingSafe ==
  q.op = "legalDrops" =>
    \A c \in q.moves : ~isInCheck(q.owner, simulateDrop(cells, c, q.kind, q.owner))

\* a drop answer of a side in check: some cells interpose and are returned,
\* an empty cell that does not interpose is left out
C11_Witness ==
  /\ q.op = "legalDrops" /\ q.kind # "Pawn"
  /\ isInCheck(q.owner, cells)
  /\ q.moves # {}
  /\ \E c \in Cells \ q.moves :
       /\ cells[c] = NoPiece
       /\ isInCheck(q.owner, simulateDrop(cells, c, q.kind, q.owner))

\* the movement template of a piece as the rules of the game give it, seen
\* from the piece's own side: the step offsets and the slide directions,
\* each <<dx, dy>> with dy = -1 one rank forward
goldSteps == {<<-1, -1>>, <<0, -1>>, <<1, -1>>, <<-1, 0>>, <<1, 0>>, <<0, 1>>}
diagonals == {<<-1, -1>>, <<1, -1>>, <<-1, 1>>, <<1, 1>>}
orthogonals == {<<0, -1>>, <<-1, 0>>, <<1, 0>>, <<0, 1>>}

templateSteps(piece) ==
  CASE piece.type = "King" -> diagonals \cup orthogonals
    [] piece.type = "Gold" -> goldSteps
    [] piece.type = "Bishop" -> IF piece.promoted THEN orthogonals ELSE {}
    [] piece.type = "Rook" -> IF piece.promoted THEN diagonals ELSE {}
    [] piece.type = "Silver" ->
         IF piece.promoted THEN goldSteps ELSE diagonals \cup {<<0, -1>>}
    [] piece.type = "Knight" ->
         IF piece.promoted THEN goldSteps ELSE {<<-1, -2>>, <<1, -2>>}
    [] piece.type = "Lance" -> IF piece.promoted THEN goldSteps ELSE {}
    [] piece.type = "Pawn" -> IF piece.promoted THEN goldSteps ELSE {<<0, -1>>}

templateSlides(piece) ==
  CASE piece.type = "Bishop" -> diagonals
    [] piece.type = "Rook" -> orthogonals
    [] piece.type = "Lance" -> IF piece.promoted THEN {} ELSE {<<0, -1>>}
    [] OTHER -> {}

\* an offset as the board has it: the opponent's pieces face the other way
facing(piece, d) == IF piece.owner = "self" THEN d ELSE <<-d[1], -d[2]>>

\* the destinations the template gives the piece of cell from: a step cell
\* on the board not held by a piece of the same owner; a cell k cells along
\* a slide direction, on the board, not held by a piece of the same owner,
\* with every cell before it on the way empty
templateDestinations(from) ==
  LET piece == cells[from]
      fx == from % 9
      fy == from \div 9
      free(x, y) == cells[y * 9 + x] = NoPiece
      landable(x, y) ==
        /\ x \in 0..8 /\ y \in 0..8
        /\ cells[y * 9 + x] = NoPiece \/ cells[y * 9 + x].owner # piece.owner
  IN  {to \in Cells :
         \/ \E s \in templateSteps(piece) :
              LET d == facing(piece, s)
              IN  landable(fx + d[1], fy + d[2]) /\ to = (fy + d[2]) * 9 + fx + d[1]
         \/ \E s \in templateSlides(piece), k \in 1..8 :
              LET d == facing(piece, s)
              IN  /\ landable(fx + k * d[1], fy + k * d[2])
                  /\ to = (fy + k * d[2]) * 9 + fx + k * d[1]
                  /\ \A m \in 1..(k - 1) : free(fx + m * d[1], fy + m * d[2])}

\* C12: pseudoLegalMoves returns exactly the destinations of the piece's
\* template: each step cell on the board not held by a same-owner piece, and
\* along each slide direction every empty cell up to the first occupied one,
\* that one included only if it holds an opposing piece; a self Pawn on 70
\* with nothing in its way has the one destination 61.
C12_PseudoLegalExactly ==
  q.op = "pseudoLegalMoves" =>
    /\ q.moves = templateDestinations(q.index)
    /\ (q.index = 70 /\ cells[70] = create("Pawn", "self") /\ cells[61] = NoPiece)
         => q.moves = {61}

\* the moves of a sliding piece asked with an opposing piece on its way and
\* cells behind that piece left out
C12_Witness ==
  /\ q.op = "pseudoLegalMoves"
  /\ q.kind \in {"Rook", "Bishop", "Lance"}
  /\ \E c \in q.moves : cells[c] # NoPiece
  /\ Cardinality(q.moves) > 2

\* the cells holding a King of the owner
kingCells(owner) ==
  {i \in Cells : cells[i] # NoPiece /\ cells[i].owner = owner /\ cells[i].type = "King"}

\* C13: isInCheck is false for a side with no King on the board; for a side
\* with its King on the board it is true exactly when the pseudo-legal moves
\* of some opposing piece include the King's cell.
C13_InCheckIff ==
  q.op = "isInCheck" =>
    \E kings \in {kingCells(q.owner)} :
      /\ kings = {} => ~q.flag
      /\ \A k \in kings :
           kings = {k} =>
             (q.flag <=>
                \E a \in Cells :
                  /\ cells[a] # NoPiece
                  /\ cells[a].owner # q.owner
                  /\ k \in calculatePseudoLegalMovesOnBoard(cells[a], a, cells))

\* a side found in check
C13_Witness ==
  q.op = "isInCheck" /\ q.flag /\ kingCells(q.owner) # {}

\* a side without a King asked, while the other side's King is on the board
C13_WitnessNoKing ==
  /\ q.op = "isInCheck" /\ kingCells(q.owner) = {}
  /\ kingCells(opponentOwner(q.owner)) # {}

\* the empty cells of a board
emptyCells(board) == {i \in Cells : board[i] = NoPiece}

\* a result of the kind the query returns
queryAnswered ==
  /\ q.op \in {"legalMoves", "legalDrops"} => q.moves \subseteq Cells
  /\ q.op \in {"isInCheck", "isCheckmate"} => q.flag \in BOOLEAN
  /\ q.op = "findHangingPieces" =>
       \A k \in 1..Len(q.hanging) :
         /\ q.hanging[k].index \in Cells
         /\ cells[q.hanging[k].index] = q.hanging[k].piece

\* C14: every query returns a value, on boards with no King and with
\* several Kings of one side as well; a side without a King is neither in
\* check nor checkmated; and the recursion legalDrops -> pawn-drop-mate ->
\* any-legal-move -> legalDrops ends, each nested legalDrops being asked on a
\* board with one empty cell fewer.
C14_QueriesTotal ==
  /\ queryAnswered
  /\ (q.op \in {"isInCheck", "isCheckmate"} /\ kingCells(q.owner) = {}) => ~q.flag
  /\ q.op = "legalDrops" =>
       \E empty \in {emptyCells(cells)} : \A c \in empty :
         emptyCells(simulateDrop(cells, c, q.kind, q.owner)) = empty \ {c}

\* a Pawn-drop answer with the hands on a board where some drop checks a
\* defender that has no move on the board and holds a piece: the nested
\* legalDrops was asked
C14_Witness ==
  /\ q.op = "legalDrops" /\ q.kind = "Pawn" /\ q.hands
  /\ \E c \in emptyCells(cells) :
       LET next == simulateDrop(cells, c, "Pawn", q.owner)
           defender == opponentOwner(q.owner)
       IN  /\ isInCheck(defender, next)
           /\ ~hasAnyLegalMove(defender, next, NoHands)
           /\ Len(getKomadaiForOwner(defender, handsArg(TRUE))) > 0

\* a checkmate question, with the hands, for a side with two Kings
C14_WitnessTwoKings ==
  q.op = "isCheckmate" /\ q.hands /\ Cardinality(kingCells(q.owner)) = 2

\* a sequence in reverse order
Reversed(seq) == [k \in 1..Len(seq) |-> seq[Len(seq) + 1 - k]]

\* a grid turned by 180 degrees: the rows in reverse order, each row reversed
Rotated180(grid) == Reversed([r \in 1..Len(grid) |-> Reversed(grid[r])])

\* C21: for the kind and promotion state of every piece on the board, the
\* movement template of the opponent's piece is the template of self's piece
\* turned by 180 degrees.
C21_TemplateSymmetry ==
  \A i \in Cells :
    cells[i] # NoPiece =>
      getMovementMatrix([cells[i] EXCEPT !.owner = "opponent"])
        = Rotated180(getMovementMatrix([cells[i] EXCEPT !.owner = "self"]))

\* a promoted Knight and an unpromoted Pawn on the board: two templates
\* that differ from their own rotation
C21_Witness ==
  /\ \E i \in Cells :
       cells[i] # NoPiece /\ cells[i].type = "Knight" /\ cells[i].promoted
  /\ \E i \in Cells :
       cells[i] # NoPiece /\ cells[i].type = "Pawn" /\ ~cells[i].promoted
  /\ \A i \in Cells :
       cells[i] # NoPiece =>
         getMovementMatrix(cells[i]) # Rotated180(getMovementMatrix(cells[i]))

\* C20: promote is idempotent and one-way: the promoted piece is promoted, of
\* the same kind and owner, and promoting it again changes nothing; a King
\* and a Gold are not promotable, before and after.
C20_PromoteIdempotent ==
  /\ [](q.op = "promote" =>
          /\ cells[q.index].promoted
          /\ cells[q.index].type = q.kind
          /\ cells[q.index].owner = q.owner
          /\ promote(cells[q.index]) = cells[q.index]
          /\ q.kind \in {"King", "Gold"} =>
               /\ ~canPromotePiece(cells[q.index])
               /\ ~canPromotePiece(create(q.kind, q.owner)))
  /\ [][(q'.op = "promote" /\ q'.flag) => cells' = cells]_vars

\* a Gold promoted a second time
C20_Witness ==
  /\ q.op = "promote"
  /\ q.flag
  /\ q.kind = "Gold"
  /\ cells[q.index].promoted

\* C16: the value findHangingPieces annotates a hanging piece with is the
\* piece's own value (getValue), whatever its kind and promotion state.
C16_HangingValueIsPieceValue ==
  q.op = "findHangingPieces" =>
    \A k \in 1..Len(q.hanging) : q.hanging[k].value = getValue(q.hanging[k].piece)

\* the board an array of the heap describes
boardOf(a) == [i \in Cells |-> IF arrays[a][i] = 0 THEN NoPiece ELSE objects[arrays[a][i]]]

\* C15: no simulate call changes an array or a piece object that existed
\* before it: the caller's array holds the same objects in the same cells,
\* every piece keeps its kind, owner and promoted flag, and the work is done
\* on a new array.
C15_NoInputMutation ==
  [][ /\ Len(arrays') = Len(arrays) + 1
      /\ \A a \in 1..Len(arrays) : arrays'[a] = arrays[a]
      /\ \A r \in 1..Len(objects) : objects'[r] = objects[r]
      /\ boardOf(1)' = cells ]_vars

\* a simulated array that shares a piece object with the caller's array on
\* another cell (a capture), with a further call made on it
C15_Witness ==
  /\ Len(arrays) = 3
  /\ \E i, j \in Cells : i # j /\ arrays[2][i] # 0 /\ arrays[2][i] = arrays[1][j]
  /\ arrays[3] # arrays[2]
  /\ Len(objects) > 3

(***************************************************************************)
(* Properties of the codec                                                 *)
(***************************************************************************)
\* a hand as counts per kind
handCounts(komadai) == [k \in PieceType |-> findItem(komadai, k).count]

\* C3: a text that decodes is exported to a text that decodes to the same
\* position: the same board cell for cell, the same hands kind for kind and
\* count for count, the same side to move and the same move number.
C3_RoundTrip ==
  redecoded # Pending =>
    /\ redecoded.ok
    /\ redecoded.boardState = cells
    /\ handCounts(redecoded.myKomadai) = handCounts(myKomadai)
    /\ handCounts(redecoded.opponentKomadai) = handCounts(opponentKomadai)
    /\ redecoded.turn = currentTurn
    /\ decodedMoveNumber = moveNumber

\* the fields of the text, as the notation defines them
textFields == splitFields(text)
boardField == textFields[1]
turnField == textFields[2]
handField == textFields[3]

\* the cells a rank describes: a digit counts its value, a letter one
RECURSIVE rankWidth(_)
rankWidth(rank) ==
  IF rank = <<>> THEN 0
  ELSE (IF isDigitChar(rank[1]) THEN digitValue(rank[1])
        ELSE IF rank[1] = "+" THEN 0 ELSE 1)
       + rankWidth(Tail(rank))

PieceLetters == {"P", "L", "N", "S", "G", "K", "B", "R",
                 "p", "l", "n", "s", "g", "k", "b", "r"}

WrongRankCount ==
  Cardinality({k \in 1..Len(boardField) : boardField[k] = "/"}) + 1 # 9

WrongRankWidth ==
  \E k \in 1..Len(splitOn(boardField, "/")) : rankWidth(splitOn(boardField, "/")[k]) # 9

UnknownPieceLetter ==
  \E k \in 1..Len(boardField) :
    /\ ~isDigitChar(boardField[k])
    /\ boardField[k] \notin {"+", "/"}
    /\ boardField[k] \notin PieceLetters

PromotedKingOrGold ==
  \E k \in 1..(Len(boardField) - 1) :
    boardField[k] = "+" /\ boardField[k + 1] \in {"K", "k", "G", "g"}

WrongTurnToken == turnField \notin {<<"b">>, <<"w">>}

HandPromotionMarker == \E k \in 1..Len(handField) : handField[k] = "+"

\* a repeat count, a longest run of digits, that is zero
HandNonPositiveCount ==
  \E k \in 1..Len(handField) :
    /\ isDigitChar(handField[k])
    /\ k = 1 \/ ~isDigitChar(handField[k - 1])
    /\ \A m \in k..Len(handField) :
         (\A n \in k..m : isDigitChar(handField[n])) => handField[m] = "0"

Defective ==
  \/ WrongRankCount
  \/ WrongRankWidth
  \/ UnknownPieceLetter
  \/ PromotedKingOrGold
  \/ WrongTurnToken
  \/ HandPromotionMarker
  \/ HandNonPositiveCount

\* C4: a text with a wrong rank count, a rank not nine cells wide, an unknown
\* piece letter, a promoted King or Gold, a wrong turn token, a promotion
\* marker in the hands or a repeat count that is not positive is refused
\* with an error, and the position is left as it was.
C4_DefectiveTextRefused ==
  (decoded # Pending /\ Defective) =>
    /\ ~decoded.ok
    /\ decoded.error # ""
    /\ cells = EmptyBoard
    /\ myKomadai = <<>> /\ opponentKomadai = <<>>
    /\ currentTurn = "self" /\ moveNumber = 1

\* a decoded text whose only defect is a promoted King or Gold
C4_Witness ==
  /\ decoded # Pending
  /\ PromotedKingOrGold
  /\ ~WrongRankCount /\ ~WrongRankWidth /\ ~UnknownPieceLetter /\ ~WrongTurnToken
  /\ ~HandPromotionMarker /\ ~HandNonPositiveCount

\* C17: an accepted text decodes to the move number its fourth field states,
\* and to move number 1 when it has three fields only.
C17_MoveNumberOrOne ==
  (decoded # Pending /\ decoded.ok) =>
    moveNumber = IF Len(textFields) >= 4 THEN parseIntPrefix(textFields[4]) ELSE 1

(***************************************************************************)
(* Properties of the move rendering                                        *)
(***************************************************************************)
\* a text names a square: a file digit 1 .. 9 and a rank letter a .. i
IsSquare(sq) ==
  /\ Len(sq) = 2
  /\ sq[1] \in {"1", "2", "3", "4", "5", "6", "7", "8", "9"}
  /\ sq[2] \in {"a", "b", "c", "d", "e", "f", "g", "h", "i"}

\* the cell of a square, by the rules engine's notation of cells
cellOfSquare(sq) ==
  CHOOSE i \in Cells :
    indexToUsiSquare(i) = <<digitValue(sq[1]), rankOffset(sq[2]) + 1>>

\* the short move is a drop
IsDropMove(usi) == \E k \in 1..Len(usi) : usi[k] = "*"

\* the moving piece of the short move cannot be looked up in the position:
\* the move names no two squares, the position text is refused, or the
\* from-square is empty
Unresolved(usi, sfen) ==
  LET t == trim(usi)
  IN  \/ Len(t) < 4
      \/ ~IsSquare(SubSeq(t, 1, 2))
      \/ ~IsSquare(SubSeq(t, 3, 4))
      \/ ~parseSFEN(sfen).ok
      \/ parseSFEN(sfen).boardState[cellOfSquare(SubSeq(t, 1, 2))] = NoPiece

\* the full move has the form toKIFMove reads: an optional '+', a piece
\* letter, then '*' and a destination, or an origin, an optional 'x' or '-'
\* and a destination
Parsable(fullUsi) ==
  LET t == trim(fullUsi)
      body == IF t # <<>> /\ t[1] = "+" THEN SubSeq(t, 2, Len(t)) ELSE t
      rest == SubSeq(body, 2, Len(body))
  IN  /\ body # <<>>
      /\ toUpperCase(body[1]) \in {"P", "L", "N", "S", "G", "K", "B", "R"}
      /\ IF rest # <<>> /\ rest[1] = "*" THEN Len(rest) >= 3
         ELSE IF Len(rest) >= 3 /\ rest[3] \in {"x", "-"} THEN Len(rest) >= 5
         ELSE Len(rest) >= 4

C18_WitnessKIF ==
  /\ render.op = "toKIFMove"
  /\ ~Parsable(render.usi)
  /\ render.usi # <<>>
  /\ render.value = <<>>

(***************************************************************************)
(* Properties of the game controller                                       *)
(***************************************************************************)
\* C19: every entry of either hand counts at least one piece, after every
\* applied position text, capture and drop.
C19_HandCountsPositive ==
  /\ \A k \in 1..Len(myKomadai) : myKomadai[k].count >= 1
  /\ \A k \in 1..Len(opponentKomadai) : opponentKomadai[k].count >= 1

\* after a position text was applied, a drop has taken the last piece of a
\* kind from self's hand: the hand has lost an entry
C19_Witness ==
  /\ lastSyncedSFEN # <<>>
  /\ parseSFEN(lastSyncedSFEN).ok
  /\ Len(myKomadai) < Len(parseSFEN(lastSyncedSFEN).myKomadai)

\* C5: no hand ever holds a King.
C5_NoKingInHand ==
  /\ \A k \in 1..Len(myKomadai) : myKomadai[k].type # "King"
  /\ \A k \in 1..Len(opponentKomadai) : opponentKomadai[k].type # "King"

\* the side-to-move token of an exported text
turnToken(sfen) == splitFields(sfen)[2]

\* C25: the controller never applies a Pawn drop that immediately checkmates
\* the opponent: after an accepted Pawn drop the defender is not checkmated.
C25_NoPawnDropMate ==
  [][\A owner \in PlayerOwner, to \in UserCells :
       handlePieceDrop("Pawn", owner, to)
         => ~isCheckmate(opponentOwner(owner), cells',
                         [self |-> myKomadai', opponent |-> opponentKomadai'])]_vars

\* C26: after every accepted local move or drop the emitted text names the
\* opponent of the mover as the side to move.
C26_TurnAlternates ==
  [][/\ \A from \in PlayCells, to \in PlayCells :
          handlePieceMove(from, to)
            => turnToken(emitted')
                 = (IF opponentOwner(cells[from].owner) = "self" THEN "b" ELSE "w")
     /\ \A pieceType \in PieceType, owner \in PlayerOwner, to \in PlayCells :
          handlePieceDrop(pieceType, owner, to)
            => turnToken(emitted')
                 = (IF opponentOwner(owner) = "self" THEN "b" ELSE "w")]_vars

\* C27: in local play from the initial position no unpromoted Pawn or Lance
\* stands on its owner's farthest rank and no unpromoted Knight on its
\* owner's two farthest ranks.
C27_MandatoryPromotion ==
  \A i \in Cells :
    (cells[i] # NoPiece /\ ~cells[i].promoted)
      => /\ (cells[i].type \in {"Pawn", "Lance"}
               => i \div BOARD_SIZE # lastRank(cells[i].owner))
         /\ (cells[i].type = "Knight"
               => (i \div BOARD_SIZE) \notin lastTwoRanks(cells[i].owner))

\* C28: once stopSync has run, a poll response changes neither the board,
\* the hands, the side to move nor the move number.
C28_NoApplyAfterStop ==
  [][\A sfen \in SyncTexts, ply \in SyncPlies :
       (~syncTimer /\ SyncResponse(sfen, ply))
         => UNCHANGED <<cells, myKomadai, opponentKomadai, currentTurn,
                        moveNumber>>]_vars


(***************************************************************************)
(* Properties of the engine request queue                                  *)
(***************************************************************************)
\* C22: the queue keeps one analysis in flight: at most one engine.analyze
\* call issued by the queue is unsettled at any time.
C22_OneInFlight == Cardinality(unsettledCalls(engineQueue)) <= 1

\* an analysis awaits its bestmove line while two more requests wait
C22_Witness ==
  /\ Cardinality(callsAt(engineQueue, "bestmove")) = 1
  /\ Len(engineQueue.queue) = 2

\* the index of the first posted command cmd of request id, 0 if none
postedIndex(log, cmd, id) ==
  IF \E k \in 1..Len(log) : log[k].cmd = cmd /\ log[k].id = id
  THEN CHOOSE k \in 1..Len(log) :
         /\ log[k].cmd = cmd /\ log[k].id = id
         /\ \A j \in 1..(k - 1) : ~(log[j].cmd = cmd /\ log[j].id = id)
  ELSE 0

\* C23: for a request that arrived while an earlier analysis was in flight,
\* a 'stop' is posted to the engine after the earlier 'go' and before the
\* request's own 'position' and 'go'.
C23_StopBeforeNext ==
  \A id \in engineQueue.arrivedBusy :
    \E p \in {postedIndex(engineQueue.posted, "position", id)} :
      p > 0 =>
        \E k \in 1..(p - 1) :
          /\ engineQueue.posted[k].cmd = "stop"
          /\ \A j \in (k + 1)..(p - 1) : engineQueue.posted[j].cmd # "go"

C24_LatestWins ==
  \E res \in {geminiService.results} : \E pos \in {geminiService.position} :
    /\ \A i \in 1..Len(res) : \A j \in 1..Len(res) :
         i < j => pos[res[i]] <= pos[res[j]]
    /\ res # <<>> => geminiService.lastResult = res[Len(res)]

(***************************************************************************)
(* Properties of the USI handshake                                         *)
(***************************************************************************)
\* C30: postAndWait(command, token) resolves only on a line with the token
\* that was received after the command was posted.
C30_ResolvedByLaterLine ==
  \E waits \in {usiEngine.waits} :
    \A k \in 1..Len(waits) :
      waits[k].state = "resolved" => waits[k].resolvedBy > waits[k].postedAt


====
